---- MODULE Spec2Model ----
(***************************************************************************)
(* GitGauge: the job orchestrator (app/workers/tasks.py), the status cache  *)
(* and work queue (app/workers/queue.py), the durable store                 *)
(* (app/db/repositories.py), the submission/query surface                   *)
(* (app/api/routers/jobs.py, app/services/analysis_service.py), the         *)
(* repository scorer (app/integrations/github_client.py) and the report     *)
(* synthesizer (app/integrations/ai_client.py).                             *)
(*                                                                          *)
(* Granularity: process_analysis_job is a coroutine on one event loop, so   *)
(* one action is what runs from the completion of one await up to the next  *)
(* await; the synchronous durable-store calls between two awaits belong to  *)
(* the action that reaches them.  Every call to a collaborator (store,      *)
(* cache, host, synthesizer) either succeeds or raises.                     *)
(***************************************************************************)
EXTENDS Integers, Sequences, FiniteSets, TLC

\* ------------------------------------------------------------------ bounds
\* store / cache / synthesizer calls that raise, over one behaviour
MaxFaults == 2
\* jobs submitted over one behaviour (create_job requests that created a row
\* and start_analysis_job calls that enqueued)
MaxSubmissions == 2
\* invocations of process_analysis_job by the poller over one behaviour
MaxPollerRuns == 2

\* ---------------------------------------------------------------- universe
\* Python's None (a missing key of the cache, a NULL column, no exception)
None == "None"

\* None where the value would otherwise be a dict (job data, a report)
NoneDict == [none |-> TRUE]

\* job identifiers (uuid4 strings handed out by the durable store)
JobIds == {"j1", "j2"}

\* the order in which the durable store hands the ids out
JobOrder == <<"j1", "j2">>

\* the poller coroutine started by the application's lifespan
Poller == "poller"

\* the coroutines that execute process_analysis_job: the background task that
\* create_job adds for job j is named j, the poller is Poller
Procs == JobIds \cup {Poller}

\* submissions: (github_username, skills)
Requests ==
  { [github_username |-> "alice", skills |-> <<"Python", "Go">>],
    [github_username |-> "bob",   skills |-> <<"Rust">>] }

\* str(e) of an exception raised by the store, the cache or the synthesizer
ExcMessages == {"", "connection lost"}

\* str(e) of the exceptions GitHubClient._make_request raises
ScorerErrors == {"GitHub user not found"}

\* limit=5 passed by process_analysis_job to the scorer
ScorerLimit == 5

\* ------------------------------------------------------------ repositories
\* str.lower() on the skill and language names of the universe
Lower(s) ==
  CASE s = "Python" -> "python"
    [] s = "Go"     -> "go"
    [] s = "Rust"   -> "rust"
    [] s = "Java"   -> "java"
    [] OTHER        -> s

\* A fetched repository.  languages: the keys of the language mapping.  A text
\* (name, description, README) is kept as the set of lower-case tokens (skills,
\* keywords) that occur in text.lower() as substrings, and its length.
\* description_none: the host sent "description": null.  readme_preview,
\* updated_at: whether the value is truthy.
RepoPy ==
  [ full_name |-> "alice/py-tool", name |-> "py-tool", languages |-> {"Python"},
    description |-> "Python command line tool",
    name_has |-> {}, description_has |-> {"python"}, readme_has |-> {},
    description_none |-> FALSE, description_len |-> 24,
    readme_preview |-> FALSE, updated_at |-> TRUE, stars |-> 12 ]
RepoGo ==
  [ full_name |-> "alice/go-tool", name |-> "go-tool", languages |-> {"Go"},
    description |-> "written in Go",
    name_has |-> {"go"}, description_has |-> {"go"}, readme_has |-> {"go"},
    description_none |-> FALSE, description_len |-> 13,
    readme_preview |-> TRUE, updated_at |-> TRUE, stars |-> 0 ]
RepoRs ==
  [ full_name |-> "bob/oxide", name |-> "oxide", languages |-> {"Rust"},
    description |-> None,
    name_has |-> {}, description_has |-> {}, readme_has |-> {"rust"},
    description_none |-> TRUE, description_len |-> 0,
    readme_preview |-> TRUE, updated_at |-> TRUE, stars |-> 3 ]

\* two more repositories of the same kinds
RepoPyLib == [ RepoPy EXCEPT !.full_name = "alice/py-lib", !.name = "py-lib" ]
RepoGoLib == [ RepoGo EXCEPT !.full_name = "alice/go-lib", !.name = "go-lib" ]

\* a repository without stars and without a README
RepoDraft ==
  [ RepoPy EXCEPT !.full_name = "alice/draft", !.name = "draft", !.stars = 0 ]

\* a list of n repositories like r
Times(r, n) == [ i \in 1..n |-> r ]

\* what get_user_repositories can return (the host's answer, in fetch order)
HostAnswers == { <<>>, <<RepoPy, RepoGo, RepoRs>> }

\* SkillScore with the name match weighted like a description match
SkillScore_NameWeighsOne(repo, skill) ==
  LET skill_lower == Lower(skill) IN
    (IF skill_lower \in {Lower(lang) : lang \in repo.languages} THEN 3 ELSE 0)
  + (IF skill_lower \in repo.name_has THEN 1 ELSE 0)
  + (IF skill_lower \in repo.description_has THEN 1 ELSE 0)
  + (IF skill_lower \in repo.readme_has THEN 1 ELSE 0)

\* the contribution of one skill to one repository's score
SkillScore(repo, skill) ==
  LET skill_lower == Lower(skill) IN
    (IF skill_lower \in {Lower(lang) : lang \in repo.languages} THEN 3 ELSE 0)
  + (IF skill_lower \in repo.name_has THEN 2 ELSE 0)
  + (IF skill_lower \in repo.description_has THEN 1 ELSE 0)
  + (IF skill_lower \in repo.readme_has THEN 1 ELSE 0)

\* the score of one repository: the loop over skills
RECURSIVE RepoScore(_, _)
RepoScore(repo, skills) ==
  IF skills = <<>> THEN 0
  ELSE SkillScore(repo, Head(skills)) + RepoScore(repo, Tail(skills))

\* Take that does not cut
Take_Whole(s, n) == s

\* the first n entries of a list (s[:n])
Take(s, n) == SubSeq(s, 1, IF Len(s) < n THEN Len(s) ELSE n)

\* SortByScore that sorts ascending and reverses: equal scores end in
\* reverse fetch order
RECURSIVE SortByScore_TiesReversed(_, _, _)
SortByScore_TiesReversed(repos, skills, level) ==
  IF level < 0 THEN <<>>
  ELSE [ i \in DOMAIN SelectSeq(repos, LAMBDA r : RepoScore(r, skills) = level)
           |-> SelectSeq(repos, LAMBDA r : RepoScore(r, skills) = level)
                 [Len(SelectSeq(repos, LAMBDA r : RepoScore(r, skills) = level))
                  + 1 - i] ]
       \o SortByScore_TiesReversed(repos, skills, level - 1)

\* list.sort(key=score, reverse=True): stable, descending
RECURSIVE SortByScore(_, _, _)
SortByScore(repos, skills, level) ==
  IF level < 0 THEN <<>>
  ELSE SelectSeq(repos, LAMBDA r : RepoScore(r, skills) = level)
       \o SortByScore(repos, skills, level - 1)

\* search_repositories_by_skills that keeps the repositories of score zero
search_repositories_by_skills_KeepsZero(all_repos, skills, limit) ==
  IF all_repos = <<>> THEN <<>>
  ELSE Take(SortByScore(all_repos, skills, 7 * Len(skills)), limit)

\* search_repositories_by_skills after the fetch: score, sort, drop the
\* zero scores, cut to limit
search_repositories_by_skills(all_repos, skills, limit) ==
  IF all_repos = <<>> THEN <<>>
  ELSE LET scored_repos   == SortByScore(all_repos, skills, 7 * Len(skills))
           relevant_repos == SelectSeq(scored_repos,
                                       LAMBDA r : RepoScore(r, skills) > 0)
       IN  Take(relevant_repos, limit)

\* ", ".join(skills)
RECURSIVE Join(_)
Join(skills) ==
  IF skills = <<>> THEN ""
  ELSE IF Len(skills) = 1 THEN skills[1]
  ELSE skills[1] \o ", " \o Join(Tail(skills))

\* dict.get(key, default)
DictGet(d, key, default) == IF key \in DOMAIN d THEN d[key] ELSE default

\* ------------------------------------------------------------- synthesizer
\* Parsed JSON and the dicts built from it.  A dict is a record holding the
\* keys that are present; null is NoneDict; a list that could also be null is
\* JList(sequence); a number that could also be null or text is JNum(n).  A
\* string field that is null holds None.
JList(s) == [list |-> s]

JNum(n) == [num |-> n]

\* a JSON string where a number was asked for
JText(s) == [text |-> s]

\* v is None
IsNone(v) == "none" \in DOMAIN v

\* v is an int
IsNum(v) == "num" \in DOMAIN v

\* x in s, for a list s
InSeq(x, s) == \E i \in DOMAIN s : s[i] = x

Min(a, b) == IF a < b THEN a ELSE b

Max(a, b) == IF a > b THEN a ELSE b

\* str(n) for a digit n
Digit(n) ==
  CASE n = 0 -> "0" [] n = 1 -> "1" [] n = 2 -> "2" [] n = 3 -> "3"
    [] n = 4 -> "4" [] n = 5 -> "5" [] n = 6 -> "6" [] n = 7 -> "7"
    [] n = 8 -> "8" [] n = 9 -> "9"

\* str(n) for n >= 0
RECURSIVE Str(_)
Str(n) == IF n < 10 THEN Digit(n) ELSE Str(n \div 10) \o Digit(n % 10)

\* sum(repo.get("stars", 0) for repo in repos)
RECURSIVE TotalStars(_)
TotalStars(repos) ==
  IF repos = <<>> THEN 0 ELSE Head(repos).stars + TotalStars(Tail(repos))

\* github_data of analyze_repositories
GithubData(repos, username) ==
  [ repos       |-> repos,
    username    |-> username,
    total_repos |-> Len(repos),
    total_stars |-> TotalStars(repos),
    languages   |-> UNION {repos[i].languages : i \in DOMAIN repos} ]

\* the code_quality block used when nothing better is known
DefaultCodeQuality ==
  [ style |-> "Adequate", readability |-> "Medium", testing |-> "Adequate",
    documentation |-> "Adequate", security |-> "Adequate" ]

\* the commit_habits block used when nothing better is known
DefaultCommitHabits ==
  [ frequency |-> "Regular", message_quality |-> "Adequate",
    collaboration_signals |-> "Moderate" ]

\* [repo.get("full_name", "") for repo in repos[:3]]
NotableRepos(repos) ==
  LET top == Take(repos, 3) IN [i \in DOMAIN top |-> top[i].full_name]

\* the candidate block of the synthesizer's own dicts
DefaultCandidate(github_data, username) ==
  [ github_username |-> username,
    summary_of_work |->
      "Developer with " \o Str(Len(github_data.repos)) \o " repositories",
    notable_repos   |-> NotableRepos(github_data.repos) ]

\* list.append(x) unless x is in the list already
AddUnique(s, x) == IF InSeq(x, s) THEN s ELSE Append(s, x)

\* skill.lower() is one of the repository's language names, lower-cased
HasLanguage(repo, skill) ==
  Lower(skill) \in {Lower(lang) : lang \in repo.languages}

\* _generate_basic_analysis, the loop over repos for one skill: strength
RECURSIVE BasicStrength(_, _)
BasicStrength(skill, repos) ==
  IF repos = <<>> THEN 0
  ELSE (IF HasLanguage(Head(repos), skill) THEN 2
        ELSE IF Lower(skill) \in Head(repos).name_has THEN 1 ELSE 0)
       + BasicStrength(skill, Tail(repos))

\* _generate_basic_analysis, the loop over repos for one skill: evidence
RECURSIVE BasicEvidence(_, _)
BasicEvidence(skill, repos) ==
  IF repos = <<>> THEN <<>>
  ELSE (IF HasLanguage(Head(repos), skill)
        THEN << "Found " \o skill \o " code in " \o Head(repos).name >>
        ELSE IF Lower(skill) \in Head(repos).name_has
        THEN << "Repository name suggests " \o skill \o " expertise" >>
        ELSE <<>>)
       \o BasicEvidence(skill, Tail(repos))

\* one repository's step on repos_ref: a language match appends, a name
\* match appends unless present
BasicRefStep(repos_ref, repo, skill) ==
  IF HasLanguage(repo, skill) THEN Append(repos_ref, repo.full_name)
  ELSE IF Lower(skill) \in repo.name_has
  THEN AddUnique(repos_ref, repo.full_name)
  ELSE repos_ref

\* _generate_basic_analysis, the loop over the first k repos for one skill:
\* repos_ref
RECURSIVE BasicRefs(_, _, _)
BasicRefs(skill, repos, k) ==
  IF k = 0 THEN <<>>
  ELSE BasicRefStep(BasicRefs(skill, repos, k - 1), repos[k], skill)

\* one skills_match entry of a heuristic analysis
SkillEntry(skill, strength, evidence, repos_ref) ==
  [ skill             |-> skill,
    strength          |-> JNum(Min(5, Max(1, strength))),
    evidence_snippets |-> Take(evidence, 3),
    repos_referenced  |-> Take(repos_ref, 3) ]

\* AIClient._generate_basic_analysis
generate_basic_analysis(github_data, skills, username) ==
  [ candidate     |-> DefaultCandidate(github_data, username),
    skills_match  |->
      JList([i \in DOMAIN skills |->
               SkillEntry(skills[i],
                          BasicStrength(skills[i], github_data.repos),
                          BasicEvidence(skills[i], github_data.repos),
                          BasicRefs(skills[i], github_data.repos,
                                    Len(github_data.repos)))]),
    code_quality  |-> DefaultCodeQuality,
    commit_habits |-> DefaultCommitHabits,
    interview_questions |->
      JList(<< [ question   |-> "Can you explain your experience with "
                                 \o (IF skills # <<>> THEN skills[1]
                                     ELSE "programming") \o "?",
                 rationale  |-> "Assess technical background",
                 difficulty |-> "intermediate" ] >>),
    risk_flags    |-> JList(<<>>),
    overall_assessment |->
      [ decision_hint |-> "maybe",
        justification |-> "Basic analysis completed, AI analysis recommended for detailed assessment" ] ]

\* the entry appended for a requested skill the reply did not mention
MissingSkillEntry(skill) ==
  [ skill             |-> skill,
    strength          |-> JNum(1),
    evidence_snippets |-> << "No evidence found" >>,
    repos_referenced  |-> <<>> ]

\* EnsureQuestions without the synthesized question
EnsureQuestions_AsReplied(interview_questions, skills) == interview_questions

\* _validate_and_format_response, lines 238-246: an empty or null
\* interview_questions is replaced by one generic question
EnsureQuestions(interview_questions, skills) ==
  IF IsNone(interview_questions) \/ interview_questions.list = <<>>
  THEN JList(<< [ question   |->
                    "Can you walk me through your experience with "
                      \o (IF skills # <<>> THEN skills[1] ELSE "programming")
                      \o "?",
                  rationale  |-> "Assess technical experience",
                  difficulty |-> "intermediate" ] >>)
  ELSE interview_questions

\* AIClient._validate_and_format_response.  Iterating a null skills_match is a
\* TypeError, an entry without "skill" a KeyError: [raised |-> TRUE].
validate_and_format_response(analysis, github_data, skills, username) ==
  LET skills_match == DictGet(analysis, "skills_match", JList(<<>>))
      interview_questions ==
        DictGet(analysis, "interview_questions", JList(<<>>))
  IN
  IF IsNone(skills_match) THEN [ raised |-> TRUE ]
  ELSE IF \E i \in DOMAIN skills_match.list :
            "skill" \notin DOMAIN skills_match.list[i]
  THEN [ raised |-> TRUE ]
  ELSE
    LET existing_skills ==
          { skills_match.list[i].skill : i \in DOMAIN skills_match.list }
        missing == SelectSeq(skills, LAMBDA skill : skill \notin existing_skills)
    IN
    [ raised |-> FALSE,
      value  |->
        [ candidate     |-> DictGet(analysis, "candidate",
                                    DefaultCandidate(github_data, username)),
          skills_match  |->
            JList(skills_match.list
                  \o [i \in DOMAIN missing |-> MissingSkillEntry(missing[i])]),
          code_quality  |-> DictGet(analysis, "code_quality", DefaultCodeQuality),
          commit_habits |->
            DictGet(analysis, "commit_habits", DefaultCommitHabits),
          interview_questions |->
            EnsureQuestions(interview_questions, skills),
          risk_flags    |-> DictGet(analysis, "risk_flags", JList(<<>>)),
          overall_assessment |->
            DictGet(analysis, "overall_assessment",
                    [ decision_hint |-> "maybe",
                      justification |-> "Insufficient data for assessment" ]) ] ]

\* CandidateResult that answers a failed primary path with a dict holding
\* nothing but an empty skills_match
CandidateResult_Stub(github_data, skills, username, model_called, validated) ==
  IF validated.raised
  THEN [ path |-> "basic", model_called |-> model_called,
         value |-> [ skills_match |-> JList(<<>>) ] ]
  ELSE [ path |-> "model", model_called |-> model_called,
         value |-> validated.value ]

\* analyze_candidate once the primary path has ended: validated is what
\* _validate_and_format_response returned, or [raised |-> TRUE] when the
\* primary path did not get that far
CandidateResult(github_data, skills, username, model_called, validated) ==
  IF validated.raised
  THEN [ path |-> "basic", model_called |-> model_called,
         value |-> generate_basic_analysis(github_data, skills, username) ]
  ELSE [ path |-> "model", model_called |-> model_called,
         value |-> validated.value ]

\* AIClient.analyze_candidate.  ai: the generative model's behaviour on this
\* call: kind "unavailable" (no client), "api_error" (_call_ai_api raises),
\* "malformed" (_parse_ai_response raises) or "reply" with the parsed dict.
analyze_candidate(github_data, skills, username, ai) ==
  CandidateResult(github_data, skills, username, ai.kind # "unavailable",
                  IF ai.kind = "reply"
                  THEN validate_and_format_response(ai.analysis, github_data,
                                                    skills, username)
                  ELSE [ raised |-> TRUE ])

\* _basic_analysis_fallback, one skill and one repository: the three checks
\* are independent
FallbackPoints(skill, repo) ==
    (IF HasLanguage(repo, skill) THEN 2 ELSE 0)
  + (IF Lower(skill) \in repo.name_has THEN 1 ELSE 0)
  + (IF Lower(skill) \in repo.description_has THEN 1 ELSE 0)

\* _basic_analysis_fallback, the loop over repos for one skill: strength
RECURSIVE FallbackStrength(_, _)
FallbackStrength(skill, repos) ==
  IF repos = <<>> THEN 0
  ELSE FallbackPoints(skill, Head(repos)) + FallbackStrength(skill, Tail(repos))

\* the evidence one repository adds for one skill
FallbackSnippets(skill, repo) ==
     (IF HasLanguage(repo, skill)
      THEN << "Found " \o skill \o " code in " \o repo.name >> ELSE <<>>)
  \o (IF Lower(skill) \in repo.name_has
      THEN << "Repository name suggests " \o skill \o " expertise: "
                \o repo.name >>
      ELSE <<>>)
  \o (IF Lower(skill) \in repo.description_has
      THEN << "Repository description mentions " \o skill \o ": "
                \o repo.description >>
      ELSE <<>>)

\* _basic_analysis_fallback, the loop over repos for one skill: evidence
RECURSIVE FallbackEvidence(_, _)
FallbackEvidence(skill, repos) ==
  IF repos = <<>> THEN <<>>
  ELSE FallbackSnippets(skill, Head(repos))
       \o FallbackEvidence(skill, Tail(repos))

\* one repository's step on repos_referenced: a language match appends, a
\* name or description match appends unless present
FallbackRefStep(repos_referenced, repo, skill) ==
  IF HasLanguage(repo, skill) THEN Append(repos_referenced, repo.full_name)
  ELSE IF \/ Lower(skill) \in repo.name_has
          \/ Lower(skill) \in repo.description_has
  THEN AddUnique(repos_referenced, repo.full_name)
  ELSE repos_referenced

\* _basic_analysis_fallback, the loop over the first k repos for one skill:
\* repos_referenced
RECURSIVE FallbackRefs(_, _, _)
FallbackRefs(skill, repos, k) ==
  IF k = 0 THEN <<>>
  ELSE FallbackRefStep(FallbackRefs(skill, repos, k - 1), repos[k], skill)

\* skills_match of _basic_analysis_fallback
FallbackSkillsMatch(repos, skills) ==
  [i \in DOMAIN skills |->
     SkillEntry(skills[i], FallbackStrength(skills[i], repos),
                FallbackEvidence(skills[i], repos),
                FallbackRefs(skills[i], repos, Len(repos)))]

\* the number of entries of a list that satisfy P
Count(s, P(_)) == Len(SelectSeq(s, P))

\* sum(skill["strength"] for skill in skills_match)
RECURSIVE SumStrength(_)
SumStrength(skills_match) ==
  IF skills_match = <<>> THEN 0
  ELSE Head(skills_match).strength.num + SumStrength(Tail(skills_match))

\* the summary line of a heuristic or model analysis
Summary(repos, top_skills, total_stars) ==
  "Active developer with " \o Str(Len(repos)) \o " relevant repositories"
  \o (IF top_skills # <<>>
      THEN " showing expertise in " \o Join(top_skills) ELSE "")
  \o (IF total_stars > 0
      THEN " with " \o Str(total_stars) \o " total stars" ELSE "")

\* the skills of the entries with strength >= 3
StrongEntries(skills_match) ==
  SelectSeq(skills_match, LAMBDA e : DictGet(e, "strength", JNum(0)).num >= 3)

\* [skill["skill"] for skill in skills_match if strength >= 3]
TopSkills(skills_match) ==
  [i \in DOMAIN StrongEntries(skills_match) |->
     StrongEntries(skills_match)[i].skill]

\* code_quality of _basic_analysis_fallback; avg_stars > 10 is compared
\* without dividing
FallbackCodeQuality(repos) ==
  [ style |-> IF repos # <<>> /\ TotalStars(repos) > 10 * Len(repos)
              THEN "Good" ELSE "Adequate",
    readability |-> IF \E i \in DOMAIN repos : repos[i].description_len > 50
                    THEN "High" ELSE "Medium",
    testing |->
      IF 2 * ( Count(repos, LAMBDA r : r.description_has
                                \cap {"test", "testing", "spec", "unit"} # {})
             + Count(repos, LAMBDA r : r.name_has \cap {"test", "spec"} # {}) )
         > Len(repos)
      THEN "Good" ELSE "Adequate",
    documentation |->
      IF 2 * ( Count(repos, LAMBDA r : r.readme_preview)
             + Count(repos, LAMBDA r : r.description_has
                      \cap {"doc", "documentation", "guide", "tutorial"} # {}) )
         > Len(repos)
      THEN "Good" ELSE "Adequate",
    security |-> IF \E i \in DOMAIN repos :
                      "security" \in repos[i].description_has
                 THEN "Good" ELSE "Adequate" ]

\* commit_habits of _basic_analysis_fallback
FallbackCommitHabits(repos) ==
  [ frequency |-> IF Count(repos, LAMBDA r : r.updated_at) > 2
                  THEN "Regular" ELSE "Occasional",
    message_quality |-> IF \E i \in DOMAIN repos : repos[i].description_len > 20
                        THEN "Good" ELSE "Adequate",
    collaboration_signals |-> IF TotalStars(repos) > 5
                              THEN "Active" ELSE "Limited" ]

\* the question asked about one of the first two skills
SkillQuestion(skill) ==
  [ question  |-> "Can you walk me through your experience with " \o skill
                    \o " based on your GitHub projects?",
    rationale |-> "Assess practical " \o skill
                    \o " experience through real projects",
    difficulty |-> "intermediate" ]

\* interview_questions of _basic_analysis_fallback
FallbackQuestions(repos, skills) ==
  [i \in DOMAIN Take(skills, 2) |-> SkillQuestion(skills[i])]
  \o (IF Len(repos) > 3
      THEN << [ question |-> "I see you have multiple repositories. How do you organize and maintain your projects?",
                rationale |-> "Assess project management and organization skills",
                difficulty |-> "intermediate" ] >>
      ELSE <<>>)

\* FallbackRiskFlags that flags low engagement whatever the number of
\* repositories
FallbackRiskFlags_AnyCount(repos) ==
     (IF repos = <<>> \/ TotalStars(repos) < Len(repos)
      THEN << [ flag |-> "Low Engagement",
                description |-> "Many repositories but low community engagement",
                severity |-> "medium" ] >>
      ELSE <<>>)
  \o (IF ~ \E i \in DOMAIN repos : repos[i].readme_preview
      THEN << [ flag |-> "Poor Documentation",
                description |-> "Lack of README files in repositories",
                severity |-> "low" ] >>
      ELSE <<>>)

\* risk_flags of _basic_analysis_fallback; avg_stars < 1 is compared without
\* dividing (avg_stars is 0 for no repos)
FallbackRiskFlags(repos) ==
     (IF (repos = <<>> \/ TotalStars(repos) < Len(repos)) /\ Len(repos) > 5
      THEN << [ flag |-> "Low Engagement",
                description |-> "Many repositories but low community engagement",
                severity |-> "medium" ] >>
      ELSE <<>>)
  \o (IF ~ \E i \in DOMAIN repos : repos[i].readme_preview
      THEN << [ flag |-> "Poor Documentation",
                description |-> "Lack of README files in repositories",
                severity |-> "low" ] >>
      ELSE <<>>)

\* decision_hint of _basic_analysis_fallback from the sum of the strengths,
\* the number m of skills and the number n of repos; avg_skill_strength is
\* sum / m, or 0 for m = 0, and is compared without dividing
FallbackDecision(sum, m, n) ==
  IF m > 0 /\ sum >= 4 * m /\ n >= 2 THEN "strong_yes"
  ELSE IF m > 0 /\ sum >= 3 * m /\ n >= 1 THEN "yes"
  ELSE IF m > 0 /\ sum >= 2 * m THEN "maybe"
  ELSE "no"

\* overall_assessment of _basic_analysis_fallback
FallbackAssessment(decision_hint, skills) ==
  [ decision_hint |-> decision_hint,
    justification |->
      CASE decision_hint = "strong_yes" ->
             "Strong evidence of " \o Join(Take(skills, 2))
               \o " expertise with multiple relevant projects"
        [] decision_hint = "yes" ->
             "Good evidence of " \o Join(Take(skills, 2))
               \o " skills with relevant projects"
        [] decision_hint = "maybe" ->
             "Some evidence of " \o Join(Take(skills, 2))
               \o " skills but limited project depth"
        [] OTHER ->
             "Insufficient evidence of " \o Join(Take(skills, 2))
               \o " expertise" ]

\* the dict _basic_analysis_fallback returns, given its skills_match
FallbackDict(repos, skills, skills_match) ==
  [ summary       |-> Summary(repos, TopSkills(skills_match), TotalStars(repos)),
    skills_match  |-> JList(skills_match),
    code_quality  |-> FallbackCodeQuality(repos),
    commit_habits |-> FallbackCommitHabits(repos),
    interview_questions |-> JList(FallbackQuestions(repos, skills)),
    risk_flags    |-> JList(FallbackRiskFlags(repos)),
    overall_assessment |->
      FallbackAssessment(FallbackDecision(SumStrength(skills_match),
                                          Len(skills_match), Len(repos)),
                         skills) ]

\* _basic_analysis_fallback.  repo.get("description", "").lower() on a
\* repository whose description is null is an AttributeError:
\* [raised |-> TRUE].
basic_analysis_fallback(repos, skills, username) ==
  IF \E i \in DOMAIN repos : repos[i].description_none
  THEN [ raised |-> TRUE ]
  ELSE [ raised |-> FALSE,
         value  |-> FallbackDict(repos, skills,
                                 FallbackSkillsMatch(repos, skills)) ]

\* the dict analyze_repositories returns for an empty repository list
NoMatchReport(username) ==
  [ summary      |-> "No relevant repositories found for " \o username,
    skills_match |-> JList(<<>>),
    code_quality |->
      [ style |-> "Unknown", readability |-> "Unknown", testing |-> "Unknown",
        documentation |-> "Unknown", security |-> "Unknown" ],
    commit_habits |->
      [ frequency |-> "Unknown", message_quality |-> "Unknown",
        collaboration_signals |-> "Unknown" ],
    interview_questions |-> JList(<<>>),
    risk_flags   |-> JList(<<>>),
    overall_assessment |->
      [ decision_hint |-> "no",
        justification |-> "No relevant repositories found" ] ]

\* lines 59-63 of analyze_repositories: the except clause
FallbackResult(model_called, fb) ==
  IF fb.raised
  THEN [ raised |-> TRUE, path |-> "fallback", model_called |-> model_called ]
  ELSE [ raised |-> FALSE, path |-> "fallback", model_called |-> model_called,
         value |-> fb.value ]

\* lines 45-63 of analyze_repositories, after analyze_candidate returned got.
\* skill.get("strength", 0) >= 3 on a strength that is no number is a
\* TypeError, which the except clause answers with the fallback.
AfterCandidate(repos, skills, username, got) ==
  IF \E i \in DOMAIN got.value.skills_match.list :
       /\ "strength" \in DOMAIN got.value.skills_match.list[i]
       /\ ~ IsNum(got.value.skills_match.list[i].strength)
  THEN FallbackResult(got.model_called,
                      basic_analysis_fallback(repos, skills, username))
  ELSE [ raised |-> FALSE, path |-> got.path,
         model_called |-> got.model_called,
         value |-> ("summary" :> Summary(repos,
                                         TopSkills(got.value.skills_match.list),
                                         TotalStars(repos)))
                   @@ got.value ]

\* analyze_repositories without the check for an empty list
analyze_repositories_Unguarded(repos, skills, username, ai) ==
  AfterCandidate(repos, skills, username,
                 analyze_candidate(GithubData(repos, username), skills,
                                   username, ai))

\* analyze_repositories.  path: which code produced the dict ("canned",
\* "model", "basic" for _generate_basic_analysis, "fallback" for
\* _basic_analysis_fallback); model_called: the primary path was entered.
analyze_repositories(repos, skills, username, ai) ==
  IF repos = <<>>
  THEN [ raised |-> FALSE, path |-> "canned", model_called |-> FALSE,
         value |-> NoMatchReport(username) ]
  ELSE AfterCandidate(repos, skills, username,
                      analyze_candidate(GithubData(repos, username), skills,
                                        username, ai))

\* ---------------------------------------------------- the model's replies
\* a reply that follows the prompt for the request (alice, [Python, Go])
ReplyFull ==
  [ candidate |->
      [ github_username |-> "alice",
        summary_of_work |-> "Builds command line tools",
        notable_repos   |-> << "go-tool" >> ],
    skills_match |->
      JList(<< [ skill |-> "Python", strength |-> JNum(4),
                 evidence_snippets |-> << "py-tool is written in Python" >>,
                 repos_referenced  |-> << "py-tool" >> ],
               [ skill |-> "Go", strength |-> JNum(3),
                 evidence_snippets |-> << "go-tool is written in Go" >>,
                 repos_referenced  |-> << "go-tool" >> ] >>),
    code_quality |->
      [ style |-> "Good", readability |-> "High", testing |-> "Poor",
        documentation |-> "Good", security |-> "Adequate" ],
    commit_habits |->
      [ frequency |-> "Frequent", message_quality |-> "Good",
        collaboration_signals |-> "Active" ],
    interview_questions |->
      JList(<< [ question   |-> "How does go-tool parse its flags?",
                 rationale  |-> "Checks knowledge of the code",
                 difficulty |-> "advanced" ] >>),
    risk_flags |-> JList(<<>>),
    overall_assessment |->
      [ decision_hint |-> "yes", justification |-> "Solid evidence" ] ]

\* a JSON object with none of the asked keys
ReplyOther == [ note |-> "I cannot assess this profile" ]

\* every asked key except skills_match is null
ReplyNulls ==
  [ candidate |-> NoneDict, code_quality |-> NoneDict,
    commit_habits |-> NoneDict, interview_questions |-> NoneDict,
    risk_flags |-> NoneDict, overall_assessment |-> NoneDict ]

\* objects that lack sub-fields, values outside the asked ranges, skills in
\* another order than requested
ReplyPartial ==
  [ skills_match |->
      JList(<< [ skill |-> "Go", strength |-> JNum(9),
                 evidence_snippets |-> <<>>, repos_referenced |-> <<>> ],
               [ skill |-> "Python", strength |-> JNum(0),
                 evidence_snippets |-> <<>>, repos_referenced |-> <<>> ] >>),
    code_quality |-> [ style |-> "Good" ],
    interview_questions |->
      JList(<< [ question |-> "What is a goroutine?", difficulty |-> "hard" ] >>),
    overall_assessment |-> [ decision_hint |-> "hire" ] ]

\* a skill twice, and a skill nobody requested
ReplyRepeats ==
  [ skills_match |->
      JList(<< [ skill |-> "Python", strength |-> JNum(4),
                 evidence_snippets |-> << "py-tool" >>,
                 repos_referenced  |-> << "py-tool" >> ],
               [ skill |-> "Python", strength |-> JNum(2),
                 evidence_snippets |-> << "scripts" >>,
                 repos_referenced  |-> <<>> ],
               [ skill |-> "Kotlin", strength |-> JNum(1),
                 evidence_snippets |-> <<>>, repos_referenced |-> <<>> ] >>) ]

\* "skills_match": null
ReplyNullSkills == [ skills_match |-> NoneDict ]

\* a skills_match entry without the "skill" key
ReplyNoSkillKey ==
  [ skills_match |->
      JList(<< [ name |-> "Python", strength |-> JNum(3) ] >>) ]

\* a strength that is no number
ReplyTextStrength ==
  [ skills_match |->
      JList(<< [ skill |-> "Python", strength |-> JText("high"),
                 evidence_snippets |-> <<>>, repos_referenced |-> <<>> ],
               [ skill |-> "Rust", strength |-> NoneDict,
                 evidence_snippets |-> <<>>, repos_referenced |-> <<>> ] >>) ]

\* the parsed replies of the generative model
ModelReplies ==
  { ReplyFull, ReplyOther, ReplyNulls, ReplyPartial, ReplyRepeats,
    ReplyNullSkills, ReplyNoSkillKey, ReplyTextStrength }

\* what the generative model does on one call of analyze_candidate
AIBehaviours ==
  { [ kind |-> "unavailable" ], [ kind |-> "api_error" ],
    [ kind |-> "malformed" ] }
  \cup { [ kind |-> "reply", analysis |-> r ] : r \in ModelReplies }

\* the skill lists of the requests
SkillLists ==
  { <<>>, << "Rust" >>, << "Python", "Go" >>, << "Go", "Go" >>,
    << "Python", "Java" >> }

\* ------------------------------------------------------------------- state
VARIABLES
  db,          \* durable store, table jobs: job id -> row (status "absent": no row)
  artifacts,   \* durable store, table job_artifacts: job id -> reports, in creation order
  r_job,       \* cache key job:{id}: the enqueued job data, or NoneDict
  r_status,    \* cache key job_status:{id}
  r_result,    \* cache key job_result:{id}
  r_error,     \* cache key job_error:{id}
  r_queue,     \* cache key queue:processing: one job id, or None
  pc,          \* position of each coroutine
  run,         \* locals of each coroutine's current process_analysis_job call
  enqLog,      \* history: job ids in order of completed enqueue_job calls
  startLog,    \* history: job ids in order of the poller's process_analysis_job calls
  faults,      \* history: collaborator calls that raised so far
  syn          \* one run of the scoring / synthesis / report pipeline (SpecSynth)

vars == << db, artifacts, r_job, r_status, r_result, r_error, r_queue,
           pc, run, enqLog, startLog, faults, syn >>

\* the variables of the job machinery
jobVars == << db, artifacts, r_job, r_status, r_result, r_error, r_queue,
              pc, run, enqLog, startLog, faults >>

\* no pipeline run is being followed
NoSyn == [ stage |-> "off" ]

\* a jobs row that does not exist
NoRow == [status |-> "absent", error_code |-> None, error_message |-> None]

\* the locals of a coroutine that is not inside process_analysis_job; began_db
\* and began_cache remember the job's durable and cached status at the call
NoRun ==
  [ job_id |-> None, github_username |-> "", skills |-> <<>>,
    relevant_repos |-> <<>>, analysis_report |-> NoneDict,
    e |-> None, site |-> None,
    began_db |-> None, began_cache |-> None,
    called_synthesizer |-> FALSE, created_artifact |-> FALSE ]

Init ==
  /\ db = [j \in JobIds |-> NoRow]
  /\ artifacts = [j \in JobIds |-> <<>>]
  /\ r_job = [j \in JobIds |-> NoneDict]
  /\ r_status = [j \in JobIds |-> None]
  /\ r_result = [j \in JobIds |-> NoneDict]
  /\ r_error = [j \in JobIds |-> None]
  /\ r_queue = None
  /\ pc = [p \in Procs |-> IF p = Poller THEN "poll" ELSE "unborn"]
  /\ run = [p \in Procs |-> NoRun]
  /\ enqLog = <<>>
  /\ startLog = <<>>
  /\ faults = 0
  /\ syn = NoSyn

\* truthiness of an optional string (if error_code: / if error: / if job_id:)
Truthy(s) == s # None /\ s # ""

\* ----------------------------------------------------------- durable store
\* JobRepository.create_job: a row in status QUEUED
JobRepository_create_job(d, j) ==
  [d EXCEPT ![j] = [status |-> "queued", error_code |-> None,
                    error_message |-> None]]

\* JobRepository.update_job_status: the row's status is overwritten whatever
\* it was; error_code and error_message only when truthy; no row, no change
JobRepository_update_job_status(d, j, status, error_code, error_message) ==
  IF d[j].status = "absent" THEN d
  ELSE [d EXCEPT ![j] =
          [ status        |-> status,
            error_code    |-> IF Truthy(error_code) THEN error_code
                              ELSE d[j].error_code,
            error_message |-> IF Truthy(error_message) THEN error_message
                              ELSE d[j].error_message ]]

\* JobArtifactRepository.create_artifact: one more artifact row for the job
JobArtifactRepository_create_artifact(a, j, report) ==
  [a EXCEPT ![j] = Append(a[j], report)]

\* get_job_status of the router: the response for an existing job
get_job_status(j) ==
  LET job == db[j]
      artifact == IF job.status = "completed" /\ artifacts[j] # <<>>
                  THEN artifacts[j][1] ELSE NoneDict
  IN  IF job.status = "completed" /\ artifact # NoneDict
      THEN [job_id |-> j, status |-> job.status, report |-> artifact]
      ELSE IF job.status = "failed"
      THEN [job_id |-> j, status |-> job.status,
            error_code |-> job.error_code,
            error_message |-> job.error_message]
      ELSE [job_id |-> j, status |-> job.status]

\* the submissions made so far
Submissions == Cardinality({j \in JobIds : pc[j] # "unborn"}) + Len(enqLog)

\* ------------------------------------------------- submission: create_job
\* the id the store hands to the next created job (ids are fresh and opaque;
\* they are named in order of creation)
NextJobId(j) == \A i \in 1..Len(JobOrder) :
                  JobOrder[i] = j =>
                    \A k \in 1..(i - 1) : pc[JobOrder[k]] # "unborn"

\* POST /jobs: the row is created QUEUED and process_analysis_job is added as a
\* background task of the request (it is not put on the cache's queue)
create_job(j, req) ==
  /\ pc[j] = "unborn"
  /\ UNCHANGED syn
  /\ NextJobId(j)
  /\ Submissions < MaxSubmissions
  /\ db' = JobRepository_create_job(db, j)
  /\ pc' = [pc EXCEPT ![j] = "start"]
  /\ run' = [run EXCEPT ![j] =
               [NoRun EXCEPT !.job_id = j,
                             !.github_username = req.github_username,
                             !.skills = req.skills]]
  /\ UNCHANGED << artifacts, r_job, r_status, r_result, r_error, r_queue,
                  enqLog, startLog, faults >>

\* POST /jobs when the durable store raises: HTTP 500, no row, no task
create_job_fails(j) ==
  /\ pc[j] = "unborn"
  /\ UNCHANGED syn
  /\ NextJobId(j)
  /\ faults < MaxFaults
  /\ faults' = faults + 1
  /\ UNCHANGED << db, artifacts, r_job, r_status, r_result, r_error, r_queue,
                  pc, run, enqLog, startLog >>

\* ------------------------------------- submission: start_analysis_job
\* the job data enqueue_job stores under job:{id}; github_username and skills
\* are keyword arguments of the task, so they sit under "kwargs"
JobData(j, req) ==
  [ job_id |-> j, status |-> "queued", task |-> "process_analysis_job",
    args |-> <<>>,
    kwargs |-> [github_username |-> req.github_username, skills |-> req.skills] ]

\* AnalysisService.start_analysis_job -> JobQueue.enqueue_job: three cache
\* writes in order (job data, status "queued", queue:processing := job id);
\* failed_at = 0: all succeed; failed_at = k: the k-th write raises
start_analysis_job(j, req, failed_at) ==
  /\ Submissions < MaxSubmissions
  /\ UNCHANGED syn
  /\ failed_at # 0 => faults < MaxFaults
  /\ faults' = IF failed_at = 0 THEN faults ELSE faults + 1
  /\ r_job' = IF failed_at = 1 THEN r_job
              ELSE [r_job EXCEPT ![j] = JobData(j, req)]
  /\ r_status' = IF failed_at \in {1, 2} THEN r_status
                 ELSE [r_status EXCEPT ![j] = "queued"]
  /\ r_queue' = IF failed_at = 0 THEN j ELSE r_queue
  /\ enqLog' = IF failed_at = 0 THEN Append(enqLog, j) ELSE enqLog
  /\ UNCHANGED << db, artifacts, r_result, r_error, pc, run, startLog >>

\* ------------------------------------------------ process_analysis_job
\* the variables no step of process_analysis_job touches
RunFrame == << r_job, r_queue, enqLog >>

\* ExceptBlock with a code of its own for the empty ranked list
ExceptBlock_CodeBySite(p, r, d, spent) ==
  \E db_raises \in BOOLEAN :
    /\ db_raises => spent < MaxFaults
    /\ faults' = IF db_raises THEN spent + 1 ELSE spent
    /\ db' = IF db_raises THEN d
             ELSE JobRepository_update_job_status(
                    d, r.job_id, "failed",
                    IF r.site = "no_repos" THEN "NO_REPOS_FOUND"
                    ELSE "PROCESSING_ERROR",
                    r.e)
    /\ pc' = [pc EXCEPT ![p] = "cache_failed"]
    /\ run' = [run EXCEPT ![p] = r]

\* The except block up to its await (lines 285-304), entered with exception
\* message r.e: JobRepository.update_job_status(FAILED, "PROCESSING_ERROR",
\* str(e)), whose own failure is caught and printed; then the coroutine awaits
\* the cache update of line 307.  d, spent: the jobs table and the fault count
\* as the try block left them; r: the coroutine's locals.
ExceptBlock(p, r, d, spent) ==
  \E db_raises \in BOOLEAN :
    /\ db_raises => spent < MaxFaults
    /\ faults' = IF db_raises THEN spent + 1 ELSE spent
    /\ db' = IF db_raises THEN d
             ELSE JobRepository_update_job_status(d, r.job_id, "failed",
                                                  "PROCESSING_ERROR", r.e)
    /\ pc' = [pc EXCEPT ![p] = "cache_failed"]
    /\ run' = [run EXCEPT ![p] = r]

\* line 221, await job_queue.update_job_status(job_id, "running"): the first
\* statement; nothing is read of the job's present status
MarkRunning(p) ==
  /\ pc[p] = "start"
  /\ UNCHANGED syn
  /\ LET j  == run[p].job_id
         r0 == [run[p] EXCEPT !.began_db = db[j].status,
                              !.began_cache = r_status[j]]
     IN  /\ \/ /\ r_status' = [r_status EXCEPT ![j] = "running"]
               /\ pc' = [pc EXCEPT ![p] = "scorer"]
               /\ run' = [run EXCEPT ![p] = r0]
               /\ UNCHANGED << db, faults >>
            \/ \E m \in ExcMessages :
               /\ faults < MaxFaults
               /\ ExceptBlock(p, [r0 EXCEPT !.e = m, !.site = "cache_running"],
                              db, faults + 1)
               /\ UNCHANGED r_status
  /\ UNCHANGED << artifacts, r_result, r_error, startLog >>
  /\ UNCHANGED RunFrame

\* lines 226-239, await github_client.search_repositories_by_skills(...): a
\* failure is re-raised as "Failed to fetch GitHub data: ...", an empty ranked
\* list raises "No repositories found matching skills: ..."
ScorerReturns(p) ==
  /\ pc[p] = "scorer"
  /\ UNCHANGED syn
  /\ \/ \E detail \in ScorerErrors :
          ExceptBlock(p, [run[p] EXCEPT
                            !.e = "Failed to fetch GitHub data: " \o detail,
                            !.site = "scorer"],
                      db, faults)
     \/ \E all_repos \in HostAnswers :
          LET relevant_repos ==
                search_repositories_by_skills(all_repos, run[p].skills, ScorerLimit)
          IN  IF relevant_repos = <<>>
              THEN ExceptBlock(p, [run[p] EXCEPT
                       !.e = "No repositories found matching skills: "
                               \o Join(run[p].skills),
                       !.site = "no_repos"],
                     db, faults)
              ELSE /\ pc' = [pc EXCEPT ![p] = "analyze"]
                   /\ run' = [run EXCEPT ![p].relevant_repos = relevant_repos]
                   /\ UNCHANGED << db, faults >>
  /\ UNCHANGED << artifacts, r_status, r_result, r_error, startLog >>
  /\ UNCHANGED RunFrame

\* lines 245-257: the report built from the synthesizer's analysis; of its
\* fields the candidate block is the orchestrator's own
AnalysisReport(github_username, relevant_repos) ==
  [ candidate |->
      [ github_username |-> github_username,
        notable_repos |-> [i \in 1..Len(Take(relevant_repos, 3)) |->
                             relevant_repos[i].full_name] ] ]

\* lines 242-278, await analyze_repositories(...) and the store block after it:
\* get_job_by_id; if the row exists update_job_status(COMPLETED), committed,
\* then create_artifact, committed separately
AnalyzeReturns(p) ==
  /\ pc[p] = "analyze"
  /\ UNCHANGED syn
  /\ LET j  == run[p].job_id
         r0 == [run[p] EXCEPT !.called_synthesizer = TRUE]
         r1 == [r0 EXCEPT !.analysis_report =
                            AnalysisReport(r0.github_username, r0.relevant_repos)]
         completed == JobRepository_update_job_status(db, j, "completed", None, None)
     IN  \* analyze_repositories raises (its heuristic fallback failed)
         \/ \E m \in ExcMessages :
              /\ faults < MaxFaults
              /\ ExceptBlock(p, [r0 EXCEPT !.e = m, !.site = "synthesizer"],
                             db, faults + 1)
              /\ UNCHANGED artifacts
         \* the store raises before COMPLETED is committed
         \/ \E m \in ExcMessages :
              /\ faults < MaxFaults
              /\ ExceptBlock(p, [r1 EXCEPT !.e = m, !.site = "store"],
                             db, faults + 1)
              /\ UNCHANGED artifacts
         \* no row for job_id: nothing is stored
         \/ /\ db[j].status = "absent"
            /\ pc' = [pc EXCEPT ![p] = "cache_completed"]
            /\ run' = [run EXCEPT ![p] = r1]
            /\ UNCHANGED << db, artifacts, faults >>
         \* COMPLETED is committed, then create_artifact raises
         \/ \E m \in ExcMessages :
              /\ db[j].status # "absent"
              /\ faults < MaxFaults
              /\ ExceptBlock(p, [r1 EXCEPT !.e = m, !.site = "artifact"],
                             completed, faults + 1)
              /\ UNCHANGED artifacts
         \* COMPLETED and the artifact are committed
         \/ /\ db[j].status # "absent"
            /\ db' = completed
            /\ artifacts' = JobArtifactRepository_create_artifact(
                              artifacts, j, r1.analysis_report)
            /\ pc' = [pc EXCEPT ![p] = "cache_completed"]
            /\ run' = [run EXCEPT ![p] = [r1 EXCEPT !.created_artifact = TRUE]]
            /\ UNCHANGED faults
  /\ UNCHANGED << r_status, r_result, r_error, startLog >>
  /\ UNCHANGED RunFrame

\* line 281, await job_queue.update_job_status(job_id, "completed", result):
\* JobQueue.update_job_status sets job_status, then job_result; failed_at = k:
\* the k-th cache write raises
CacheCompletedReturns(p) ==
  /\ pc[p] = "cache_completed"
  /\ UNCHANGED syn
  /\ LET j == run[p].job_id IN
       \/ /\ r_status' = [r_status EXCEPT ![j] = "completed"]
          /\ r_result' = [r_result EXCEPT ![j] = run[p].analysis_report]
          /\ pc' = [pc EXCEPT ![p] = "done"]
          /\ UNCHANGED << db, run, faults >>
       \/ \E m \in ExcMessages, failed_at \in {1, 2} :
          /\ faults < MaxFaults
          /\ r_status' = IF failed_at = 1 THEN r_status
                         ELSE [r_status EXCEPT ![j] = "completed"]
          /\ ExceptBlock(p, [run[p] EXCEPT !.e = m, !.site = "cache_completed"],
                         db, faults + 1)
          /\ UNCHANGED r_result
  /\ UNCHANGED << artifacts, r_error, startLog >>
  /\ UNCHANGED RunFrame

\* line 307, await job_queue.update_job_status(job_id, "failed", error=str(e)):
\* sets job_status, then job_error when the message is truthy; an exception
\* here leaves process_analysis_job
CacheFailedReturns(p) ==
  /\ pc[p] = "cache_failed"
  /\ UNCHANGED syn
  /\ LET j == run[p].job_id IN
       \/ /\ r_status' = [r_status EXCEPT ![j] = "failed"]
          /\ r_error' = IF Truthy(run[p].e)
                        THEN [r_error EXCEPT ![j] = run[p].e] ELSE r_error
          /\ pc' = [pc EXCEPT ![p] = "done"]
          /\ UNCHANGED faults
       \/ /\ faults < MaxFaults
          /\ faults' = faults + 1
          /\ pc' = [pc EXCEPT ![p] = "raised"]
          /\ \/ UNCHANGED r_status
             \/ /\ Truthy(run[p].e)
                /\ r_status' = [r_status EXCEPT ![j] = "failed"]
          /\ UNCHANGED r_error
  /\ UNCHANGED << db, artifacts, r_result, run, startLog >>
  /\ UNCHANGED RunFrame

\* ------------------------------------------- start_background_processor
PollerFrame == << db, artifacts, r_status, r_result, r_error, enqLog >>

\* a cache call of the poller raises: the loop's except prints and backs off
PollerCallRaises(at) ==
  /\ pc[Poller] = at
  /\ UNCHANGED syn
  /\ faults < MaxFaults
  /\ faults' = faults + 1
  /\ pc' = [pc EXCEPT ![Poller] = "raised"]
  /\ UNCHANGED << r_job, r_queue, run, startLog >>
  /\ UNCHANGED PollerFrame

\* line 320, job_id = await redis_manager.get("queue:processing")
PollQueue ==
  /\ pc[Poller] = "poll"
  /\ UNCHANGED syn
  /\ Len(startLog) < MaxPollerRuns
  /\ IF Truthy(r_queue)
     THEN /\ pc' = [pc EXCEPT ![Poller] = "get_data"]
          /\ run' = [run EXCEPT ![Poller] = [NoRun EXCEPT !.job_id = r_queue]]
     ELSE /\ pc' = [pc EXCEPT ![Poller] = "sleep"]
          /\ run' = [run EXCEPT ![Poller] = NoRun]
  /\ UNCHANGED << r_job, r_queue, faults, startLog >>
  /\ UNCHANGED PollerFrame

\* lines 324-333, job_data_str = await redis_manager.get(f"job:{job_id}"), then
\* process_analysis_job is called with job_data.get("github_username", "") and
\* job_data.get("skills", []), read at the top level of the job data
PollGetData ==
  /\ pc[Poller] = "get_data"
  /\ UNCHANGED syn
  /\ LET job_data == r_job[run[Poller].job_id] IN
       IF job_data # NoneDict
       THEN /\ pc' = [pc EXCEPT ![Poller] = "start"]
            /\ startLog' = Append(startLog, run[Poller].job_id)
            /\ run' = [run EXCEPT ![Poller] =
                         [NoRun EXCEPT
                            !.job_id = run[Poller].job_id,
                            !.github_username = DictGet(job_data, "github_username", ""),
                            !.skills = DictGet(job_data, "skills", <<>>)]]
       ELSE /\ pc' = [pc EXCEPT ![Poller] = "sleep"]
            /\ UNCHANGED << run, startLog >>
  /\ UNCHANGED << r_job, r_queue, faults >>
  /\ UNCHANGED PollerFrame

\* line 336, await redis_manager.delete("queue:processing"), after
\* process_analysis_job returned
PollDeleteQueue ==
  /\ pc[Poller] = "done"
  /\ UNCHANGED syn
  /\ r_queue' = None
  /\ pc' = [pc EXCEPT ![Poller] = "delete_job"]
  /\ UNCHANGED << r_job, run, faults, startLog >>
  /\ UNCHANGED PollerFrame

\* line 337, await redis_manager.delete(f"job:{job_id}")
PollDeleteJob ==
  /\ pc[Poller] = "delete_job"
  /\ UNCHANGED syn
  /\ r_job' = [r_job EXCEPT ![run[Poller].job_id] = NoneDict]
  /\ pc' = [pc EXCEPT ![Poller] = "sleep"]
  /\ UNCHANGED << r_queue, run, faults, startLog >>
  /\ UNCHANGED PollerFrame

\* lines 340 and 344, asyncio.sleep(1) after an iteration, asyncio.sleep(5)
\* after an exception reached the loop
PollSleep ==
  /\ pc[Poller] \in {"sleep", "raised"}
  /\ UNCHANGED syn
  /\ pc' = [pc EXCEPT ![Poller] = "poll"]
  /\ UNCHANGED << r_job, r_queue, run, faults, startLog >>
  /\ UNCHANGED PollerFrame

\* ------------------------------------------------------------ specification
\* The code has two disjoint ways into process_analysis_job: create_job adds
\* it as a background task of the request and never touches the queue;
\* start_analysis_job enqueues a job id for the poller and never creates a row.

\* a step of process_analysis_job by coroutine p
ProcessStep(p) ==
  \/ MarkRunning(p)
  \/ ScorerReturns(p)
  \/ AnalyzeReturns(p)
  \/ CacheCompletedReturns(p)
  \/ CacheFailedReturns(p)

\* the submission path: POST /jobs and its background tasks
NextSubmit ==
  \/ \E j \in JobIds, req \in Requests : create_job(j, req)
  \/ \E j \in JobIds : create_job_fails(j)
  \/ \E j \in JobIds : ProcessStep(j)

\* the queue path: start_analysis_job and the poller
NextQueue ==
  \/ \E j \in JobIds, req \in Requests, failed_at \in 0..3 :
       start_analysis_job(j, req, failed_at)
  \/ ProcessStep(Poller)
  \/ PollQueue
  \/ PollGetData
  \/ \E at \in {"poll", "get_data", "done", "delete_job"} : PollerCallRaises(at)
  \/ PollDeleteQueue
  \/ PollDeleteJob
  \/ PollSleep

Next == NextSubmit \/ NextQueue

Spec == Init /\ [][Next]_vars

\* The submission path on its own, with its scheduling: a background task
\* that can take its next step takes it (every awaited call returns or
\* raises within its timeout, and the process keeps running).
NextRun ==
  \/ \E j \in JobIds, req \in Requests : create_job(j, req)
  \/ \E j \in JobIds : ProcessStep(j)

SpecRun ==
  Init /\ [][NextRun]_vars /\ \A j \in JobIds : WF_vars(ProcessStep(j))

\* ----------------------------------------------------- the report pipeline
\* One run of process_analysis_job through its computations (scorer,
\* synthesizer, report), with a store and a cache that work; and direct calls
\* of analyze_repositories.  The inputs are drawn by InitSynth.

\* analysis_report that keeps the candidate block of the synthesizer's dict
\* where it has one
analysis_report_CandidateFromReply(github_username, relevant_repos, analysis_data) ==
  [ candidate |->
      IF /\ "candidate" \in DOMAIN analysis_data
         /\ "notable_repos" \in DOMAIN analysis_data.candidate
      THEN analysis_data.candidate
      ELSE [ github_username |-> github_username,
             summary_of_work |-> analysis_data.summary,
             notable_repos   |-> NotableRepos(relevant_repos) ],
    skills_match        |-> analysis_data.skills_match,
    code_quality        |-> analysis_data.code_quality,
    commit_habits       |-> analysis_data.commit_habits,
    interview_questions |-> analysis_data.interview_questions,
    risk_flags          |-> analysis_data.risk_flags,
    overall_assessment  |-> analysis_data.overall_assessment ]

\* lines 245-257 in full: the report stored for the job
analysis_report(github_username, relevant_repos, analysis_data) ==
  [ candidate |->
      [ github_username |-> github_username,
        summary_of_work |-> analysis_data.summary,
        notable_repos   |-> AnalysisReport(github_username, relevant_repos)
                              .candidate.notable_repos ],
    skills_match        |-> analysis_data.skills_match,
    code_quality        |-> analysis_data.code_quality,
    commit_habits       |-> analysis_data.commit_habits,
    interview_questions |-> analysis_data.interview_questions,
    risk_flags          |-> analysis_data.risk_flags,
    overall_assessment  |-> analysis_data.overall_assessment ]

\* scored_repos of search_repositories_by_skills before the sort: the score
\* of every fetched repository, in fetch order
ScoredRepos(all_repos, skills) ==
  [i \in DOMAIN all_repos |->
     [ full_name |-> all_repos[i].full_name,
       score     |-> RepoScore(all_repos[i], skills) ]]

\* what get_user_repositories returns in the runs of the pipeline
SynthHostAnswers ==
  HostAnswers \cup { << RepoPy, RepoGo, RepoPyLib, RepoGoLib >> }

\* the repository lists analyze_repositories is called with directly
DirectRepoLists ==
  { <<>>, << RepoPy >>, << RepoGo, RepoPy >>,
    Times(RepoGo, 6), Times(RepoDraft, 6), Times(RepoDraft, 5),
    << RepoPy >> \o Times(RepoGo, 5) }

InitSynth ==
  /\ db = [j \in JobIds |-> NoRow]
  /\ artifacts = [j \in JobIds |-> <<>>]
  /\ r_job = [j \in JobIds |-> NoneDict]
  /\ r_status = [j \in JobIds |-> None]
  /\ r_result = [j \in JobIds |-> NoneDict]
  /\ r_error = [j \in JobIds |-> None]
  /\ r_queue = None
  /\ pc = [p \in Procs |-> IF p = Poller THEN "poll" ELSE "unborn"]
  /\ run = [p \in Procs |-> NoRun]
  /\ enqLog = <<>>
  /\ startLog = <<>>
  /\ faults = 0
  /\ \E skills \in SkillLists, ai \in AIBehaviours :
       \/ \E all_repos \in SynthHostAnswers :
            syn = [ stage |-> "scorer", github_username |-> "alice",
                    skills |-> skills, ai |-> ai, all_repos |-> all_repos ]
       \/ \E repos \in DirectRepoLists :
            syn = [ stage |-> "call", github_username |-> "alice",
                    skills |-> skills, ai |-> ai, repos |-> repos ]

\* lines 225-239: the scorer returned; an empty list ends the job FAILED
SynScorer ==
  /\ syn.stage = "scorer"
  /\ syn' = [ stage |-> IF search_repositories_by_skills(
                             syn.all_repos, syn.skills, ScorerLimit) = <<>>
                        THEN "failed" ELSE "analyze",
              github_username |-> syn.github_username,
              skills |-> syn.skills, ai |-> syn.ai,
              all_repos |-> syn.all_repos,
              scored |-> ScoredRepos(syn.all_repos, syn.skills),
              relevant_repos |-> search_repositories_by_skills(
                                   syn.all_repos, syn.skills, ScorerLimit) ]
  /\ UNCHANGED jobVars

\* line 242: analyze_repositories returned or raised
SynAnalyze ==
  /\ syn.stage = "analyze"
  /\ \E out \in { analyze_repositories(syn.relevant_repos, syn.skills,
                                        syn.github_username, syn.ai) } :
       syn' = [ stage |-> IF out.raised THEN "failed" ELSE "report",
                github_username |-> syn.github_username,
                skills |-> syn.skills, ai |-> syn.ai,
                all_repos |-> syn.all_repos, scored |-> syn.scored,
                relevant_repos |-> syn.relevant_repos, out |-> out ]
  /\ UNCHANGED jobVars

\* lines 245-281: the report is built and stored, the job is COMPLETED
SynStore ==
  /\ syn.stage = "report"
  /\ syn' = [ stage |-> "completed",
              github_username |-> syn.github_username,
              skills |-> syn.skills, ai |-> syn.ai,
              all_repos |-> syn.all_repos, scored |-> syn.scored,
              relevant_repos |-> syn.relevant_repos, out |-> syn.out,
              report |-> analysis_report(syn.github_username,
                                         syn.relevant_repos, syn.out.value) ]
  /\ UNCHANGED jobVars

\* a direct call of analyze_repositories
SynCall ==
  /\ syn.stage = "call"
  /\ syn' = [ stage |-> "returned",
              github_username |-> syn.github_username,
              skills |-> syn.skills, ai |-> syn.ai, repos |-> syn.repos,
              out |-> analyze_repositories(syn.repos, syn.skills,
                                           syn.github_username, syn.ai) ]
  /\ UNCHANGED jobVars

NextSynth == SynScorer \/ SynAnalyze \/ SynStore \/ SynCall

SpecSynth == InitSynth /\ [][NextSynth]_vars

\* ------------------------------------------------------- the host requests
\* One call of search_repositories_by_skills, or of get_user_repositories,
\* request by request.  The host is drawn by InitFetch: its repositories, the
\* rate-limit headers it sends, and at most one request that it does not
\* answer with success.

\* per_page of get_user_repositories, scaled down from 100
PerPage == 2

\* line 95: the page ceiling
MaxPages == 20

\* settings.GITHUB_RATE_LIMIT
GithubRateLimit == 100

\* one outbound request: a listing page, or the languages / README of the
\* n-th listed repository
Request(what, n) == [ what |-> what, n |-> n ]

\* the host answers every request with success
NoFault == [ what |-> "none", n |-> 0, kind |-> "none" ]

\* how a request can go wrong: no response in time, no connection, 403 with
\* a rate-limit text, 404; "empty": a success with an empty body
FaultKinds == { "timeout", "unreachable", "rate_limit", "not_found", "empty" }

\* the rate-limit headers of a response: X-RateLimit-Remaining and
\* X-RateLimit-Reset, either of which may be absent
HeaderSets == { [ remaining |-> 59 ], [ reset |-> "t1" ] }

\* a listing page that is full, whatever the page size
FullPage ==
  [ i \in 1..PerPage |->
      CASE i % 3 = 1 -> RepoPy [] i % 3 = 2 -> RepoGo [] OTHER -> RepoRs ]

\* the body of listing page p
HostPage(host, p) ==
  IF host.endless THEN FullPage
  ELSE SubSeq(host.repos, (p - 1) * PerPage + 1,
              Min(p * PerPage, Len(host.repos)))

\* the status and the headers of the host's response to a request
HostAnswer(host, req) ==
  [ status  |-> IF host.fault.what = req.what /\ host.fault.n = req.n
                THEN host.fault.kind ELSE "ok",
    headers |-> host.headers ]

\* the client state a fresh GitHubClient starts with (lines 27-28)
NewClient ==
  [ rate_limit_remaining |-> GithubRateLimit, rate_limit_reset |-> None ]

\* lines 36-40: the bookkeeping after a response
UpdateRateLimit(client, headers) ==
  [ rate_limit_remaining |-> DictGet(headers, "remaining", 0),
    rate_limit_reset     |-> DictGet(headers, "reset", client.rate_limit_reset) ]

\* _make_request that refuses to send once the recorded budget is spent
make_request_ChecksBudget(client, answer) ==
  IF client.rate_limit_remaining = 0
  THEN [ client |-> client, raised |-> TRUE, error |-> "rate_limit" ]
  ELSE IF answer.status \in {"timeout", "unreachable"}
  THEN [ client |-> client, raised |-> TRUE, error |-> answer.status ]
  ELSE [ client |-> UpdateRateLimit(client, answer.headers),
         raised |-> answer.status \in {"rate_limit", "not_found"},
         error  |-> IF answer.status \in {"rate_limit", "not_found"}
                    THEN answer.status ELSE "none" ]

\* _make_request: without a response (timeout, no connection) it raises and
\* the bookkeeping is untouched; with a response the bookkeeping is updated
\* first, then a rate-limit 403 and an error status raise
make_request(client, answer) ==
  IF answer.status \in {"timeout", "unreachable"}
  THEN [ client |-> client, raised |-> TRUE, error |-> answer.status ]
  ELSE [ client |-> UpdateRateLimit(client, answer.headers),
         raised |-> answer.status \in {"rate_limit", "not_found"},
         error  |-> IF answer.status \in {"rate_limit", "not_found"}
                    THEN answer.status ELSE "none" ]

\* get_repository_languages that answers a failed request with the
\* languages of the listing
get_repository_languages_Keeps(repo, response, status) == repo.languages

\* get_repository_languages: the mapping's keys, {} when the request raised
get_repository_languages(repo, response, status) ==
  IF response.raised \/ status = "empty" THEN {} ELSE repo.languages

\* get_repository_readme and lines 146, 191: the repository with the README
\* as fetched, None (and so no text) when the request raised
WithReadme(repo, response, status) ==
  IF response.raised \/ status = "empty"
  THEN [ repo EXCEPT !.readme_has = {}, !.readme_preview = FALSE ]
  ELSE repo

\* lines 153-155: a language match appends the skill
AfterLanguage(matched_skills, repo, skill) ==
  IF HasLanguage(repo, skill) THEN Append(matched_skills, skill)
  ELSE matched_skills

\* lines 158-173: a match in the name, the description or the README appends
\* the skill unless it is in the list
AfterTexts(matched_skills, repo, skill) ==
  IF \/ Lower(skill) \in repo.name_has
     \/ Lower(skill) \in repo.description_has
     \/ Lower(skill) \in repo.readme_has
  THEN AddUnique(matched_skills, skill)
  ELSE matched_skills

\* matched_skills after the first k skills
RECURSIVE MatchedSkills(_, _, _)
MatchedSkills(repo, skills, k) ==
  IF k = 0 THEN <<>>
  ELSE AfterTexts(AfterLanguage(MatchedSkills(repo, skills, k - 1),
                                repo, skills[k]),
                  repo, skills[k])

\* lines 176-192: repo_data of a fetched repository
RepoData(repo, skills) ==
  [ full_name      |-> repo.full_name,
    score          |-> RepoScore(repo, skills),
    matched_skills |-> MatchedSkills(repo, skills, Len(skills)),
    repo           |-> repo ]

\* lines 196-203 over the repositories as fetched: the returned list
RankedData(fetched, skills, limit) ==
  [ i \in DOMAIN search_repositories_by_skills(fetched, skills, limit) |->
      RepoData(search_repositories_by_skills(fetched, skills, limit)[i],
               skills) ]

\* the skill lists and limits the calls are made with
FetchSkillLists ==
  { << "Go" >>, << "Python", "Rust" >>, << "Go", "Java" >>, << "Go", "Go" >> }
FetchLimits == { 1, 2, ScorerLimit }

\* the repositories of the hosts that search_repositories_by_skills is
\* called against, in listing order
FetchRepoLists ==
  { <<>>, << RepoPy, RepoGo, RepoRs >>, << RepoRs, RepoGo, RepoPy >> }

\* the hosts that get_user_repositories is called against directly
ListRepoLists ==
  { <<>>, << RepoPy >>, << RepoPy, RepoGo >>, << RepoPy, RepoGo, RepoRs >>,
    << RepoPy, RepoGo, RepoRs, RepoPy >> }

\* the one request of a host with these repositories that goes wrong
Faults(repos) ==
  { NoFault }
  \cup { [ what |-> "page", n |-> p, kind |-> k ] :
           p \in 1..2, k \in FaultKinds \ {"empty"} }
  \cup { [ what |-> w, n |-> i, kind |-> k ] :
           w \in {"languages", "readme"}, i \in DOMAIN repos, k \in FaultKinds }

\* the result of a call that has not ended
NoOutcome == [ raised |-> FALSE, error |-> "none", result |-> <<>> ]

\* the locals at the start of a call
FetchStart(mode, skills, limit, host, client, call, first) ==
  [ stage |-> "listing", mode |-> mode, github_username |-> "alice",
    skills |-> skills, limit |-> limit, host |-> host, client |-> client,
    call |-> call, first |-> first, page |-> 1, all_repos |-> <<>>,
    i |-> 0, languages |-> {}, fetched |-> <<>>, log |-> <<>>,
    outcome |-> NoOutcome ]

\* the job machinery at rest
JobsAtRest ==
  /\ db = [j \in JobIds |-> NoRow]
  /\ artifacts = [j \in JobIds |-> <<>>]
  /\ r_job = [j \in JobIds |-> NoneDict]
  /\ r_status = [j \in JobIds |-> None]
  /\ r_result = [j \in JobIds |-> NoneDict]
  /\ r_error = [j \in JobIds |-> None]
  /\ r_queue = None
  /\ pc = [p \in Procs |-> IF p = Poller THEN "poll" ELSE "unborn"]
  /\ run = [p \in Procs |-> NoRun]
  /\ enqLog = <<>>
  /\ startLog = <<>>
  /\ faults = 0

\* calls of search_repositories_by_skills
InitFetch ==
  /\ JobsAtRest
  /\ \E headers \in HeaderSets, skills \in FetchSkillLists,
        limit \in FetchLimits, repos \in FetchRepoLists :
       \E fault \in Faults(repos) :
         syn = FetchStart("search", skills, limit,
                          [ endless |-> FALSE, repos |-> repos,
                            fault |-> fault, headers |-> headers ],
                          NewClient, 1, NoOutcome)

\* direct calls of get_user_repositories
InitList ==
  /\ JobsAtRest
  /\ \E headers \in HeaderSets, repos \in ListRepoLists,
        endless \in BOOLEAN,
        fault \in { NoFault,
                    [ what |-> "page", n |-> 2, kind |-> "timeout" ] } :
       syn = FetchStart("list", <<>>, ScorerLimit,
                        [ endless |-> endless, repos |-> repos,
                          fault |-> fault, headers |-> headers ],
                        NewClient, 1, NoOutcome)

\* the request was made: the bookkeeping of the client and the request log
Logged(s, req, response) ==
  [ s EXCEPT !.client = response.client,
             !.log = Append(@, [ what |-> req.what, n |-> req.n,
                                 error |-> response.error ]) ]

\* the call raises
CallRaises(s, error) ==
  [ s EXCEPT !.stage = "raised",
             !.outcome = [ raised |-> TRUE, error |-> error,
                           result |-> <<>> ] ]

\* the call returns
CallReturns(s, result) ==
  [ s EXCEPT !.stage = "returned",
             !.outcome = [ raised |-> FALSE, error |-> "none",
                           result |-> result ] ]

\* get_user_repositories returns all_repos: to its caller, or into lines
\* 131-137 of search_repositories_by_skills
ListingEnds(s, all_repos) ==
  IF s.mode = "list"
  THEN [ CallReturns(s, all_repos) EXCEPT !.all_repos = all_repos ]
  ELSE IF all_repos = <<>>
  THEN [ CallReturns(s, <<>>) EXCEPT !.all_repos = all_repos ]
  ELSE [ s EXCEPT !.stage = "languages", !.all_repos = all_repos, !.i = 1 ]

\* AfterPage with the ceiling one page later
AfterPage_LateCeiling(s, repos) ==
  IF repos = <<>> THEN ListingEnds(s, s.all_repos)
  ELSE IF Len(repos) < PerPage THEN ListingEnds(s, s.all_repos \o repos)
  ELSE IF s.page + 1 > MaxPages + 1 THEN ListingEnds(s, s.all_repos \o repos)
  ELSE [ s EXCEPT !.all_repos = @ \o repos, !.page = @ + 1 ]

\* lines 83-96: the page was received
AfterPage(s, repos) ==
  IF repos = <<>> THEN ListingEnds(s, s.all_repos)
  ELSE IF Len(repos) < PerPage THEN ListingEnds(s, s.all_repos \o repos)
  ELSE IF s.page + 1 > MaxPages THEN ListingEnds(s, s.all_repos \o repos)
  ELSE [ s EXCEPT !.all_repos = @ \o repos, !.page = @ + 1 ]

\* lines 79-96: one iteration of the loop of get_user_repositories; an
\* exception of _make_request leaves both functions
RequestPage ==
  /\ syn.stage = "listing"
  /\ \E response \in { make_request(syn.client,
                         HostAnswer(syn.host, Request("page", syn.page))) } :
       syn' = IF response.raised
              THEN CallRaises(Logged(syn, Request("page", syn.page), response),
                              response.error)
              ELSE AfterPage(Logged(syn, Request("page", syn.page), response),
                             HostPage(syn.host, syn.page))
  /\ UNCHANGED jobVars

\* line 142: the languages of the i-th repository
FetchLanguages ==
  /\ syn.stage = "languages"
  /\ \E response \in { make_request(syn.client,
                         HostAnswer(syn.host, Request("languages", syn.i))) } :
       syn' = [ Logged(syn, Request("languages", syn.i), response)
                  EXCEPT !.stage = "readme",
                         !.languages = get_repository_languages(
                            syn.all_repos[syn.i], response,
                            HostAnswer(syn.host,
                                       Request("languages", syn.i)).status) ]
  /\ UNCHANGED jobVars

\* the i-th repository as fetched
FetchedRepo(s, response) ==
  [ WithReadme(s.all_repos[s.i], response,
               HostAnswer(s.host, Request("readme", s.i)).status)
      EXCEPT !.languages = s.languages ]

\* lines 194-203: the repository is scored; after the last one the list is
\* sorted, filtered, cut and returned
AfterRepo(s) ==
  IF s.i > Len(s.all_repos)
  THEN CallReturns(s, RankedData(s.fetched, s.skills, s.limit))
  ELSE s

\* lines 145-203: the README of the i-th repository
FetchReadme ==
  /\ syn.stage = "readme"
  /\ \E response \in { make_request(syn.client,
                         HostAnswer(syn.host, Request("readme", syn.i))) } :
       syn' = AfterRepo(
                [ Logged(syn, Request("readme", syn.i), response)
                    EXCEPT !.stage = "languages",
                           !.fetched = Append(@, FetchedRepo(syn, response)),
                           !.languages = {},
                           !.i = @ + 1 ])
  /\ UNCHANGED jobVars

\* the next call of search_repositories_by_skills on the same client (the
\* module has one GitHubClient), with the same arguments against the same
\* host
SecondCall ==
  /\ syn.stage \in {"returned", "raised"}
  /\ syn.mode = "search"
  /\ syn.call = 1
  /\ syn' = FetchStart("search", syn.skills, syn.limit, syn.host, syn.client,
                       2, syn.outcome)
  /\ UNCHANGED jobVars

NextFetch == RequestPage \/ FetchLanguages \/ FetchReadme \/ SecondCall

SpecFetch == InitFetch /\ [][NextFetch]_vars

\* ------------------------------------------------------------------ claims
\* COMPLETED or FAILED
Terminal == {"completed", "failed"}

\* a status other than QUEUED that a job can be found in
NotQueued == {"running", "completed", "failed"}

\* coroutine p is inside process_analysis_job, past its first statement
InRun(p) == pc[p] \in {"scorer", "analyze", "cache_completed", "cache_failed"}

\* C1: once process_analysis_job has returned, the job's status is COMPLETED
\* or FAILED in the durable Job record and in the status cache, whatever the
\* Scorer, the Synthesizer, the store and the cache did.
C1_TerminalOnReturn ==
  \A p \in Procs :
    pc[p] = "done" =>
      /\ db[run[p].job_id].status # "absent" =>
           db[run[p].job_id].status \in Terminal
      /\ r_status[run[p].job_id] \in Terminal

\* C2: the durable status of a job never changes once it is COMPLETED or
\* FAILED.
C2_TerminalIsFinal ==
  [][\A j \in JobIds :
       db[j].status \in Terminal => db'[j].status = db[j].status]_vars

\* C3: a job whose durable status is FAILED has a non-empty error_code and a
\* non-empty error_message.
C3_FailedHasCodeAndMessage ==
  \A j \in JobIds :
    db[j].status = "failed" =>
      Truthy(db[j].error_code) /\ Truthy(db[j].error_message)

\* C4: whenever a job's durable status is COMPLETED its artifact exists, so
\* the job query returns the report.
C4_CompletedHasReport ==
  \A j \in JobIds :
    db[j].status = "completed" =>
      /\ artifacts[j] # <<>>
      /\ "report" \in DOMAIN get_job_status(j)

\* C5: a job is RUNNING, in the durable Job record as well as in the status
\* cache, from the start of process_analysis_job: while the Scorer is being
\* called both stores say RUNNING.
C5_RunningWhileScoring ==
  \A p \in Procs :
    pc[p] = "scorer" =>
      /\ db[run[p].job_id].status # "absent" =>
           db[run[p].job_id].status = "running"
      /\ r_status[run[p].job_id] = "running"

\* C6: a call of process_analysis_job that found the job RUNNING, COMPLETED or
\* FAILED (in the durable record or in the cache) changes neither the job's
\* status nor its stored report or error.  One coroutine moves per step, so
\* the step of p is the one that changes pc[p].
C6_NotQueuedIsNoOp ==
  [][\A p \in Procs :
       ( /\ pc[p] \in {"start", "scorer", "analyze", "cache_completed",
                       "cache_failed"}
         /\ pc'[p] # pc[p]
         /\ \/ run'[p].began_db \in NotQueued
            \/ run'[p].began_cache \in NotQueued )
       => /\ db'[run[p].job_id] = db[run[p].job_id]
          /\ artifacts'[run[p].job_id] = artifacts[run[p].job_id]
          /\ r_status'[run[p].job_id] = r_status[run[p].job_id]
          /\ r_result'[run[p].job_id] = r_result[run[p].job_id]
          /\ r_error'[run[p].job_id] = r_error[run[p].job_id]]_vars

\* C7: at most one job is RUNNING at any instant: two executions of
\* process_analysis_job for different jobs never overlap, and the cache never
\* reports two jobs as running.
C7_OneJobRunning ==
  /\ \A p, q \in Procs :
       InRun(p) /\ InRun(q) /\ p # q => run[p].job_id = run[q].job_id
  /\ Cardinality({j \in JobIds : r_status[j] = "running"}) <= 1

\* the positions of job j in a log
Positions(log, j) == {i \in DOMAIN log : log[i] = j}

\* C8: jobs are processed in the order of their enqueue: when the poller has
\* started job B, every job A enqueued before B has been started before B.
\* (Stated for jobs enqueued once.)
C8_FifoByEnqueue ==
  \A i, k \in DOMAIN enqLog :
    ( /\ i < k
      /\ Cardinality(Positions(enqLog, enqLog[i])) = 1
      /\ Cardinality(Positions(enqLog, enqLog[k])) = 1
      /\ Positions(startLog, enqLog[k]) # {} )
    => \E a \in Positions(startLog, enqLog[i]) :
         \A b \in Positions(startLog, enqLog[k]) : a < b

\* C9: if the Scorer call failed, process_analysis_job returns with the job
\* FAILED, error_code "PROCESSING_ERROR" and the failure detail as
\* error_message, without having called the Synthesizer or stored a report.
C9_ScorerFailureFailsJob ==
  \A p \in Procs :
    ( /\ pc[p] = "done"
      /\ run[p].site = "scorer"
      /\ db[run[p].job_id].status # "absent" )
    => /\ db[run[p].job_id].status = "failed"
       /\ db[run[p].job_id].error_code = "PROCESSING_ERROR"
       /\ db[run[p].job_id].error_message = run[p].e
       /\ \E detail \in ScorerErrors :
            run[p].e = "Failed to fetch GitHub data: " \o detail
       /\ ~ run[p].called_synthesizer
       /\ ~ run[p].created_artifact

\* the messages that mention "no repositories found matching skills: " and
\* the skills joined by ", " (the first letter in either case)
NoReposMessages(skills) ==
  { "no repositories found matching skills: " \o Join(skills),
    "No repositories found matching skills: " \o Join(skills) }

\* C10: if the Scorer returned an empty ranked list, process_analysis_job
\* returns with the job FAILED, not COMPLETED, and an error message that
\* mentions "no repositories found matching skills: " and the requested
\* skills in request order joined by ", ".
C10_NoReposFailsJob ==
  \A p \in Procs :
    ( /\ pc[p] = "done"
      /\ run[p].site = "no_repos"
      /\ db[run[p].job_id].status # "absent" )
    => /\ db[run[p].job_id].status = "failed"
       /\ db[run[p].job_id].error_message \in NoReposMessages(run[p].skills)

\* ------------------------------------------- claims on the report pipeline
\* the job of the pipeline run is COMPLETED: its report is stored
Completed == syn.stage = "completed"

\* a list without its repeated entries, in order of first occurrence
RECURSIVE Distinct(_)
Distinct(s) ==
  IF s = <<>> THEN <<>>
  ELSE LET front == Distinct(SubSeq(s, 1, Len(s) - 1)) IN
       IF InSeq(s[Len(s)], front) THEN front ELSE Append(front, s[Len(s)])

\* C11: skills_match of a COMPLETED report holds exactly one entry per
\* requested skill, in request order, no skill twice and no other skill,
\* whichever path produced it.
C11_OneEntryPerSkill ==
  Completed =>
    LET entries == syn.report.skills_match.list
        wanted  == Distinct(syn.skills)
    IN  /\ Len(entries) = Len(wanted)
        /\ \A i \in DOMAIN entries : entries[i].skill = wanted[i]

\* C12: every skills_match entry of a COMPLETED report has an integer
\* strength between 1 and 5, entries taken from the model's reply included.
C12_StrengthInRange ==
  Completed =>
    \A i \in DOMAIN syn.report.skills_match.list :
      LET entry == syn.report.skills_match.list[i] IN
        /\ "strength" \in DOMAIN entry
        /\ IsNum(entry.strength)
        /\ entry.strength.num \in 1..5

\* the skill matches none of the ranked repositories
ZeroMatches(skill, repos) ==
  \A i \in DOMAIN repos : SkillScore(repos[i], skill) = 0

\* C13: a requested skill with zero matches in the ranked repositories is
\* reported in skills_match of a COMPLETED report with strength 1 and a
\* non-empty evidence_snippets list (the placeholder), on every path.
C13_ZeroMatchPlaceholder ==
  Completed =>
    \A k \in DOMAIN syn.skills :
      ZeroMatches(syn.skills[k], syn.relevant_repos) =>
        /\ \E i \in DOMAIN syn.report.skills_match.list :
             syn.report.skills_match.list[i].skill = syn.skills[k]
        /\ \A i \in DOMAIN syn.report.skills_match.list :
             LET entry == syn.report.skills_match.list[i] IN
               entry.skill = syn.skills[k] =>
                 /\ "strength" \in DOMAIN entry
                 /\ entry.strength = JNum(1)
                 /\ "evidence_snippets" \in DOMAIN entry
                 /\ entry.evidence_snippets # <<>>

\* the dict has every key of keys, none of them null; the values are strings
HasStrings(d, keys) ==
  /\ ~ IsNone(d)
  /\ keys \subseteq DOMAIN d
  /\ \A k \in keys : d[k] # None

\* C14: the report of a COMPLETED job is fully populated: candidate,
\* skills_match, code_quality (five grades), commit_habits (three fields),
\* interview_questions, risk_flags and overall_assessment (decision_hint and
\* justification) are present and not null, for every reply of the model.
C14_FullyPopulated ==
  Completed =>
    /\ HasStrings(syn.report.candidate, {"github_username", "summary_of_work"})
    /\ "notable_repos" \in DOMAIN syn.report.candidate
    /\ ~ IsNone(syn.report.skills_match)
    /\ HasStrings(syn.report.code_quality,
                  {"style", "readability", "testing", "documentation",
                   "security"})
    /\ HasStrings(syn.report.commit_habits,
                  {"frequency", "message_quality", "collaboration_signals"})
    /\ ~ IsNone(syn.report.interview_questions)
    /\ ~ IsNone(syn.report.risk_flags)
    /\ HasStrings(syn.report.overall_assessment,
                  {"decision_hint", "justification"})

\* the model replied and its reply holds no interview question
ModelGaveNoQuestion ==
  /\ syn.ai.kind = "reply"
  /\ \/ "interview_questions" \notin DOMAIN syn.ai.analysis
     \/ IsNone(syn.ai.analysis.interview_questions)
     \/ syn.ai.analysis.interview_questions.list = <<>>

\* C15: interview_questions of a COMPLETED report is a non-empty list on
\* every path; when the reply of the model was used and held no question,
\* it is exactly one question that names the first requested skill.
C15_QuestionsNonEmpty ==
  Completed =>
    /\ ~ IsNone(syn.report.interview_questions)
    /\ syn.report.interview_questions.list # <<>>
    /\ (syn.out.path = "model" /\ ModelGaveNoQuestion) =>
         /\ Len(syn.report.interview_questions.list) = 1
         /\ syn.report.interview_questions.list[1].question =
              "Can you walk me through your experience with "
                \o syn.skills[1] \o "?"

\* the reply of the model was used, it held no question, and the report has
\* the one synthesized question
C15_Witness ==
  /\ Completed
  /\ syn.out.path = "model"
  /\ ModelGaveNoQuestion
  /\ Len(syn.report.interview_questions.list) = 1

\* C16: in a COMPLETED report decision_hint is one of strong_yes, yes,
\* maybe, no and the difficulty of every interview question is one of
\* beginner, intermediate, advanced, whatever the model replied.
C16_EnumsHold ==
  Completed =>
    /\ ~ IsNone(syn.report.overall_assessment)
    /\ "decision_hint" \in DOMAIN syn.report.overall_assessment
    /\ syn.report.overall_assessment.decision_hint
         \in {"strong_yes", "yes", "maybe", "no"}
    /\ ~ IsNone(syn.report.interview_questions)
    /\ \A i \in DOMAIN syn.report.interview_questions.list :
         LET q == syn.report.interview_questions.list[i] IN
           /\ "difficulty" \in DOMAIN q
           /\ q.difficulty \in {"beginner", "intermediate", "advanced"}

\* analyze_repositories has returned or raised in this state
Analyzed == syn.stage \in {"report", "completed", "returned"}
            \/ (syn.stage = "failed" /\ "out" \in DOMAIN syn)

\* the repository list analyze_repositories was called with
AnalyzedRepos ==
  IF syn.stage = "returned" THEN syn.repos ELSE syn.relevant_repos

\* the primary path of analyze_candidate was entered and failed: the model
\* call raised, its reply was no JSON, or the reply could not be normalized
PrimaryFailed ==
  \/ syn.ai.kind \in {"api_error", "malformed"}
  \/ /\ syn.ai.kind = "reply"
     /\ \/ /\ "skills_match" \in DOMAIN syn.ai.analysis
           /\ IsNone(syn.ai.analysis.skills_match)
        \/ /\ "skills_match" \in DOMAIN syn.ai.analysis
           /\ ~ IsNone(syn.ai.analysis.skills_match)
           /\ \E i \in DOMAIN syn.ai.analysis.skills_match.list :
                "skill" \notin DOMAIN syn.ai.analysis.skills_match.list[i]

\* a heuristic dict with all the fields of a report
HeuristicShape(d) ==
  /\ {"skills_match", "code_quality", "commit_habits", "interview_questions",
      "risk_flags", "overall_assessment", "summary"} \subseteq DOMAIN d
  /\ ~ IsNone(d.skills_match)
  /\ HasStrings(d.code_quality,
                {"style", "readability", "testing", "documentation", "security"})
  /\ HasStrings(d.commit_habits,
                {"frequency", "message_quality", "collaboration_signals"})
  /\ ~ IsNone(d.interview_questions)
  /\ ~ IsNone(d.risk_flags)
  /\ HasStrings(d.overall_assessment, {"decision_hint", "justification"})

\* C17: a failure on the primary path is answered inside the synthesizer by
\* a heuristic dict with all required fields, not by an exception;
\* analyze_repositories raises only when _basic_analysis_fallback raised.
C17_PrimaryFailureIsCaught ==
  Analyzed =>
    /\ (PrimaryFailed /\ AnalyzedRepos # <<>>) =>
         /\ ~ syn.out.raised
         /\ syn.out.path = "basic"
         /\ HeuristicShape(syn.out.value)
    /\ syn.out.raised =>
         /\ syn.out.path = "fallback"
         /\ basic_analysis_fallback(AnalyzedRepos, syn.skills,
                                    syn.github_username).raised

\* the model's reply was malformed and the job is COMPLETED with the
\* heuristic report
C17_Witness ==
  /\ Completed
  /\ syn.ai.kind = "malformed"
  /\ syn.out.path = "basic"

\* C18: called with an empty repository list, analyze_repositories returns
\* the canned no-match dict, decision_hint "no", without entering the model
\* path or a heuristic path.
C18_EmptyListIsCanned ==
  (syn.stage = "returned" /\ syn.repos = <<>>) =>
    /\ ~ syn.out.raised
    /\ syn.out.path = "canned"
    /\ ~ syn.out.model_called
    /\ syn.out.value.overall_assessment.decision_hint = "no"
    /\ syn.out.value.skills_match = JList(<<>>)

\* analyze_repositories has returned for an empty list while the model was
\* ready to reply
C18_Witness ==
  /\ syn.stage = "returned"
  /\ syn.repos = <<>>
  /\ syn.ai.kind = "reply"
  /\ syn.out.value.overall_assessment.decision_hint = "no"

\* the scorer has run in this state
Scored == "scored" \in DOMAIN syn

\* 1 if the condition holds, else 0
Indicator(b) == IF b THEN 1 ELSE 0

\* the weights of the four categories, summed over the first k requested
\* skills: language 3, name 2, description 1, README 1
RECURSIVE WeightedMatches(_, _, _)
WeightedMatches(repo, skills, k) ==
  IF k = 0 THEN 0
  ELSE WeightedMatches(repo, skills, k - 1)
       + 3 * Indicator(\E lang \in repo.languages :
                         Lower(lang) = Lower(skills[k]))
       + 2 * Indicator(Lower(skills[k]) \in repo.name_has)
       + 1 * Indicator(Lower(skills[k]) \in repo.description_has)
       + 1 * Indicator(Lower(skills[k]) \in repo.readme_has)

\* C19: the score of every fetched repository is the sum over the requested
\* skills of 3 for a language match, 2 for the name, 1 for the description
\* and 1 for the README.
C19_ScoreIsWeightedSum ==
  Scored =>
    \A i \in DOMAIN syn.all_repos :
      syn.scored[i].score =
        WeightedMatches(syn.all_repos[i], syn.skills, Len(syn.skills))

\* a repository that matches one skill in all four categories was scored 7
C19_Witness ==
  /\ Scored
  /\ syn.skills = << "Python", "Go" >>
  /\ \E i \in DOMAIN syn.all_repos :
       /\ syn.all_repos[i] = RepoGo
       /\ syn.scored[i].score = 7

\* the set of the requested skills
SkillSet(skills) == { skills[k] : k \in DOMAIN skills }

\* C20: a skill adds its weight at most once per category and repository,
\* also when the skill list names it more than once: no score exceeds 7
\* times the number of distinct requested skills.
C20_ScoreBoundedByDistinctSkills ==
  Scored =>
    \A i \in DOMAIN syn.scored :
      syn.scored[i].score <= 7 * Cardinality(SkillSet(syn.skills))

\* get_user_repositories called directly.  Every request gets its response
\* or its exception (httpx runs each request under the client's timeout), so
\* a loop that can take its next iteration takes it.
NextList == RequestPage

SpecList == InitList /\ [][NextList]_vars /\ WF_vars(RequestPage)

\* ------------------------------------------- claims on the host requests
\* a call of search_repositories_by_skills has returned its list
Returned == syn.mode = "search" /\ syn.stage = "returned"

\* the position of a repository in the listing
ListingPos(full_name) ==
  CHOOSE i \in DOMAIN syn.all_repos : syn.all_repos[i].full_name = full_name

\* C21: the returned list is ordered by score descending, and two returned
\* repositories of equal score are in the order of the fetched listing.
C21_SortedStable ==
  Returned =>
    \A i, j \in DOMAIN syn.outcome.result :
      i < j =>
        /\ syn.outcome.result[i].score >= syn.outcome.result[j].score
        /\ syn.outcome.result[i].score = syn.outcome.result[j].score =>
             ListingPos(syn.outcome.result[i].full_name)
               < ListingPos(syn.outcome.result[j].full_name)

\* two repositories of equal score were returned, with a higher-scored
\* repository listed between them
C21_Witness ==
  /\ Returned
  /\ syn.host.repos = << RepoRs, RepoGo, RepoPy >>
  /\ Len(syn.outcome.result) = 2
  /\ syn.outcome.result[1].full_name = "bob/oxide"
  /\ syn.outcome.result[2].full_name = "alice/py-tool"
  /\ syn.outcome.result[1].score = syn.outcome.result[2].score

\* the fetched repositories with a positive score
PositiveFetched ==
  SelectSeq(syn.fetched, LAMBDA r : RepoScore(r, syn.skills) > 0)

\* the repository is in the returned list
IsReturned(full_name) ==
  \E i \in DOMAIN syn.outcome.result :
    syn.outcome.result[i].full_name = full_name

\* C22: the returned list holds no repository of score 0, at most limit
\* repositories, as many as limit allows, and every positive-score
\* repository left out ranks behind every returned one.
C22_FirstLimitOfPositive ==
  Returned =>
    /\ \A i \in DOMAIN syn.outcome.result : syn.outcome.result[i].score > 0
    /\ Len(syn.outcome.result) <= syn.limit
    /\ Len(syn.outcome.result) = Min(syn.limit, Len(PositiveFetched))
    /\ \A k \in DOMAIN PositiveFetched :
         ~ IsReturned(PositiveFetched[k].full_name) =>
           \A i \in DOMAIN syn.outcome.result :
             \/ syn.outcome.result[i].score
                  > RepoScore(PositiveFetched[k], syn.skills)
             \/ /\ syn.outcome.result[i].score
                     = RepoScore(PositiveFetched[k], syn.skills)
                /\ ListingPos(syn.outcome.result[i].full_name)
                     < ListingPos(PositiveFetched[k].full_name)

\* limit 1 cut a list of two positive-score repositories
C22_Witness ==
  /\ Returned
  /\ syn.limit = 1
  /\ Len(PositiveFetched) = 2
  /\ Len(syn.outcome.result) = 1

\* the second call against the same host has ended
SecondEnded ==
  /\ syn.mode = "search"
  /\ syn.call = 2
  /\ syn.stage \in {"returned", "raised"}

\* C23: a second call of search_repositories_by_skills with the same skills
\* against a host that answers the same ends as the first did: the same
\* list, scores and matched_skills, whatever rate-limit bookkeeping the
\* first call left in the client.
C23_Deterministic ==
  SecondEnded =>
    /\ syn.outcome.raised = syn.first.raised
    /\ syn.outcome.result = syn.first.result

\* both calls returned repositories, and the second began with the recorded
\* budget at 0
C23_Witness ==
  /\ SecondEnded
  /\ syn.first.result # <<>>
  /\ syn.outcome.result # <<>>
  /\ syn.client.rate_limit_remaining = 0

\* some request of the call got the answer
Answered(errors) ==
  \E k \in DOMAIN syn.log : syn.log[k].error \in errors

\* C24: when a request of a scoring call (a listing page, the languages or
\* the README of a repository) times out or finds the host unreachable,
\* the call raises that error and returns no list.
C24_TimeoutFailsCall ==
  (syn.mode = "search" /\ Answered({"timeout", "unreachable"})) =>
    /\ syn.stage = "raised"
    /\ syn.outcome.error \in {"timeout", "unreachable"}

\* C25: when the host answers a request of a scoring call with rate-limit
\* exhaustion, that request is the last of the call and the call raises the
\* condition to process_analysis_job, which fails the job.
C25_RateLimitSurfaces ==
  syn.mode = "search" =>
    \A k \in DOMAIN syn.log :
      syn.log[k].error = "rate_limit" =>
        /\ k = Len(syn.log)
        /\ syn.stage = "raised"
        /\ syn.outcome.error = "rate_limit"

\* the host does not answer this fetch with a body
FetchFailed(what, i) == syn.host.fault.what = what /\ syn.host.fault.n = i

\* the i-th listed repository with an empty language mapping / an empty
\* README where the fetch failed or returned nothing
Expected(i) ==
  [ syn.all_repos[i] EXCEPT
      !.languages = IF FetchFailed("languages", i) THEN {} ELSE @,
      !.readme_has = IF FetchFailed("readme", i) THEN {} ELSE @,
      !.readme_preview = IF FetchFailed("readme", i) THEN FALSE ELSE @ ]

\* C26: a languages or README fetch that fails or returns nothing does not
\* fail the scoring call; the repository is scored with an empty language
\* mapping / an empty README and its other fields.
C26_BestEffort ==
  syn.mode = "search" =>
    /\ (\E k \in DOMAIN syn.log :
          /\ syn.log[k].what \in {"languages", "readme"}
          /\ syn.log[k].error # "none") => syn.stage # "raised"
    /\ \A i \in DOMAIN syn.fetched : syn.fetched[i] = Expected(i)
    /\ Returned =>
         \A j \in DOMAIN syn.outcome.result :
           syn.outcome.result[j].score =
             RepoScore(Expected(ListingPos(syn.outcome.result[j].full_name)),
                       syn.skills)

\* the languages fetch of go-tool timed out and go-tool was returned with
\* the score of its name, description and README
C26_Witness ==
  /\ Returned
  /\ syn.skills = << "Go" >>
  /\ syn.host.fault.what = "languages"
  /\ syn.host.fault.kind = "timeout"
  /\ \E j \in DOMAIN syn.outcome.result :
       /\ syn.outcome.result[j].full_name = "alice/go-tool"
       /\ FetchFailed("languages", ListingPos("alice/go-tool"))
       /\ syn.outcome.result[j].score = 4

\* the concatenation of the host's listing pages 1..n
RECURSIVE PagesUpTo(_, _)
PagesUpTo(host, n) ==
  IF n = 0 THEN <<>> ELSE PagesUpTo(host, n - 1) \o HostPage(host, n)

\* a direct call of get_user_repositories has ended
ListEnded == syn.mode = "list" /\ syn.stage \in {"returned", "raised"}

\* the pages are requested in order 1, 2, ..., at most MaxPages of them,
\* none after an empty or short page; the call returns the pages fetched,
\* concatenated, and returns only after an empty page, a short page or page
\* MaxPages
PagesInOrder ==
  syn.mode = "list" =>
    /\ \A k \in DOMAIN syn.log : syn.log[k].what = "page" /\ syn.log[k].n = k
    /\ Len(syn.log) <= MaxPages
    /\ \A k \in DOMAIN syn.log :
         k < Len(syn.log) => Len(HostPage(syn.host, k)) >= PerPage
    /\ syn.stage = "listing" => syn.page = Len(syn.log) + 1
    /\ syn.stage = "returned" =>
         /\ syn.outcome.result = PagesUpTo(syn.host, Len(syn.log))
         /\ \/ Len(HostPage(syn.host, Len(syn.log))) < PerPage
            \/ Len(syn.log) = MaxPages

\* C27: get_user_repositories always terminates; it requests pages 1, 2,
\* ... in order, stops at the first empty or short page, requests at most 20
\* pages whatever the host returns, and returns the pages in page order.
C27_ListingTerminates ==
  /\ [] PagesInOrder
  /\ <> ListEnded

\* the host filled every page and the call returned after page 20
C27_Witness ==
  /\ ListEnded
  /\ syn.host.endless
  /\ syn.stage = "returned"
  /\ Len(syn.log) = MaxPages
  /\ Len(syn.outcome.result) = MaxPages * PerPage

\* ---------------------------------- further claims on the report pipeline
\* C28: when the model is unavailable or the primary path failed, the
\* decision_hint of the COMPLETED report follows the four thresholds on the
\* average strength of its skills_match and the number of ranked
\* repositories.
C28_HeuristicDecisionByThresholds ==
  (Completed /\ syn.out.path # "model") =>
    syn.report.overall_assessment.decision_hint =
      FallbackDecision(SumStrength(syn.report.skills_match.list),
                       Len(syn.report.skills_match.list),
                       Len(syn.relevant_repos))

\* C29: candidate.notable_repos of a COMPLETED report holds the full names
\* of the first min(3, n) repositories of the scorer's ranked list, in rank
\* order, whatever candidate block the model replied.
C29_NotableReposFromRanking ==
  Completed =>
    /\ Len(syn.report.candidate.notable_repos)
         = Min(3, Len(syn.relevant_repos))
    /\ \A i \in DOMAIN syn.report.candidate.notable_repos :
         syn.report.candidate.notable_repos[i] = syn.relevant_repos[i].full_name

\* four repositories were ranked, the model replied its own candidate
\* block, and the report names the first three of the ranking
C29_Witness ==
  /\ Completed
  /\ syn.out.path = "model"
  /\ syn.ai.analysis = ReplyFull
  /\ Len(syn.relevant_repos) = 4
  /\ syn.report.candidate.notable_repos
       = << "alice/go-tool", "alice/go-lib", "alice/py-tool" >>

\* ------------------------------------- further claims on the job machinery
\* C30: whenever the status cache reports "completed" or "failed" for a
\* job, the durable record of the job holds the same status, also when the
\* durable update failed or the record is missing.
C30_DurableAgreesOnceTerminal ==
  \A j \in JobIds :
    r_status[j] \in {"completed", "failed"} => db[j].status = r_status[j]

\* ----------------------------------- further claims on the host requests
\* C31: matched_skills of a returned repository names no skill twice, also
\* when the skill list does, and names the skills in the order in which
\* they first matched.
C31_MatchedSkillsIsSet ==
  Returned =>
    \A j \in DOMAIN syn.outcome.result :
      syn.outcome.result[j].matched_skills =
        Distinct(SelectSeq(syn.skills,
                           LAMBDA skill :
                             SkillScore(syn.outcome.result[j].repo, skill) > 0))

\* ----------------------------------- further claims on the job machinery
\* C32: a job that is RUNNING eventually is COMPLETED or FAILED, given that
\* every outbound call returns or fails and the process keeps running.
C32_RunningReachesTerminal ==
  \A j \in JobIds :
    (r_status[j] = "running") ~> (db[j].status \in {"completed", "failed"})

\* ---------------------------------- claims on the heuristic fallback
\* _basic_analysis_fallback has returned its dict
FallbackReturned ==
  Analyzed /\ syn.out.path = "fallback" /\ ~ syn.out.raised

\* the names of the risk flags of the fallback's dict
FlagNames ==
  [ i \in DOMAIN syn.out.value.risk_flags.list |->
      syn.out.value.risk_flags.list[i].flag ]

\* C33: the fallback's risk_flags holds "Low Engagement" exactly when the
\* average star count is below 1 and there are more than 5 repositories,
\* "Poor Documentation" exactly when no repository has a README excerpt, and
\* no other flag.
C33_FallbackRiskFlags ==
  FallbackReturned =>
    /\ InSeq("Low Engagement", FlagNames)
         <=> /\ TotalStars(AnalyzedRepos) < Len(AnalyzedRepos)
             /\ Len(AnalyzedRepos) > 5
    /\ InSeq("Poor Documentation", FlagNames)
         <=> \A i \in DOMAIN AnalyzedRepos : ~ AnalyzedRepos[i].readme_preview
    /\ \A i \in DOMAIN FlagNames :
         FlagNames[i] \in {"Low Engagement", "Poor Documentation"}

\* six repositories without stars and without README: both flags
C33_Witness ==
  /\ FallbackReturned
  /\ Len(AnalyzedRepos) = 6
  /\ FlagNames = << "Low Engagement", "Poor Documentation" >>

\* C39: _basic_analysis_fallback returns its dict without raising for every
\* repository list the scorer returns, also when a repository has no
\* description (null) or no README.
C39_FallbackNeverRaises ==
  (Analyzed /\ syn.out.path = "fallback") => ~ syn.out.raised

\* ------------------------------------------ claims on the poller's queue
\* the poller's step from the job data to the call of process_analysis_job
PollerCalls ==
  pc[Poller] = "get_data" /\ pc'[Poller] = "start"

\* C34: the poller calls process_analysis_job with the github_username and
\* the skills that were submitted when the job was enqueued.
C34_PollerPassesSubmittedArguments ==
  [][ PollerCalls =>
        /\ run'[Poller].github_username
             = r_job[run[Poller].job_id].kwargs.github_username
        /\ run'[Poller].skills = r_job[run[Poller].job_id].kwargs.skills ]_vars

\* C35: no enqueued job is lost: a job that was enqueued and that the poller
\* has not yet handed to process_analysis_job is still the queue's entry,
\* whatever was enqueued or cleaned up in the meantime.
C35_EnqueuedJobStaysQueued ==
  \A i \in DOMAIN enqLog :
    Positions(startLog, enqLog[i]) = {} => r_queue = enqLog[i]

\* C36: the poller calls process_analysis_job at most once per enqueued job,
\* also when process_analysis_job raised and the loop resumed after its
\* backoff.
C36_ProcessedAtMostOnce ==
  \A j \in JobIds :
    Cardinality(Positions(startLog, j)) <= Cardinality(Positions(enqLog, j))

\* -------------------------------------- claims on the job's failure record
\* C37: a job whose durable status is FAILED has no persisted artifact.
C37_FailedHasNoArtifact ==
  \A j \in JobIds : db[j].status = "failed" => artifacts[j] = <<>>

\* C38: every job that process_analysis_job marks FAILED has error_code
\* exactly "PROCESSING_ERROR", whatever the cause of the failure.
C38_FailedCodeIsProcessingError ==
  \A j \in JobIds :
    db[j].status = "failed" => db[j].error_code = "PROCESSING_ERROR"

\* two jobs failed for different causes (the host's error, the empty ranked
\* list) that differ in error_message only
C38_Witness ==
  /\ db["j1"].status = "failed" /\ run["j1"].site = "scorer"
  /\ db["j2"].status = "failed" /\ run["j2"].site = "no_repos"
  /\ db["j1"].error_message # db["j2"].error_message
  /\ db["j1"].error_code = db["j2"].error_code

\* --------------------------------- claims on the synthesizer's arguments
\* process_analysis_job has called analyze_repositories in this state
CalledInJob ==
  syn.stage \in {"report", "completed"}
  \/ (syn.stage = "failed" /\ "out" \in DOMAIN syn)

\* C40: process_analysis_job calls analyze_repositories only with a
\* non-empty ranked list and a skill list of which at least one skill
\* matched; no COMPLETED report is the canned no-match report: its
\* candidate.notable_repos and its skills_match are non-empty.
C40_CompletedIsNeverCanned ==
  /\ CalledInJob =>
       /\ syn.relevant_repos # <<>>
       /\ \E k \in DOMAIN syn.skills :
            ~ ZeroMatches(syn.skills[k], syn.relevant_repos)
       /\ syn.out.path # "canned"
  /\ Completed =>
       /\ syn.report.candidate.notable_repos # <<>>
       /\ ~ IsNone(syn.report.skills_match)
       /\ syn.report.skills_match.list # <<>>

\* a COMPLETED report from the model's reply, for a request of two skills of
\* which one matched
C40_Witness ==
  /\ Completed
  /\ syn.out.path = "model"
  /\ syn.skills = << "Python", "Java" >>
  /\ ZeroMatches("Java", syn.relevant_repos)
  /\ syn.report.candidate.notable_repos # <<>>
  /\ syn.report.skills_match.list # <<>>

====
